---- MODULE Spec2Model ----
(***************************************************************************)
(* Model of the deterministic area-extraction engine                       *)
(* (python-service/app/services/area_extractor.py) and of its HTTP entry   *)
(* point (python-service/app/main.py).                                     *)
(*                                                                         *)
(* Text is modelled as it is in the program: a line is a sequence of       *)
(* one-character strings, a page is the sequence of lines that             *)
(* text.split('\n') yields, a document is a sequence of pages.  Every      *)
(* regular expression of the source is an operator over such character     *)
(* sequences.  Numbers are exact decimals counted in units of              *)
(* 10^-FracDigits m2.  Line indices are 1-based here (Python's i is i+1),  *)
(* page indices are 0-based as in the program.                             *)
(***************************************************************************)
EXTENDS Integers, Sequences, FiniteSets, TLC

VARIABLES
    entry,        \* the entry point that serves the call: "http", "dict", "fn"
    filename,     \* file.filename of the upload
    fitz,         \* FITZ_AVAILABLE
    plumber,      \* whether `import pdfplumber` succeeds
    content,      \* the bytes: "pdf" (a document), "malformed", "empty"
    hint,         \* the style argument: <<>> is None, <<s>> the string s
    doc,          \* the document: sequence of pages, each a sequence of lines
    pages,        \* the pages argument: <<>> is None, <<l>> the list l
    arg,          \* the argument of a helper function called on its own
    pc,           \* position in the call
    style_enum,   \* the parsed style argument: <<>> is None
    handle,       \* the document handle: "unopened", "open", "closed"
    style,        \* detected_style
    fn,           \* extract_fn
    k,            \* position in page_indices (1-based)
    page_rooms,   \* the chosen extractor's rooms for the current page
    alt,          \* position in the fallback list for the current page
    room_counter, \* room_counter of the pdfplumber path
    rooms,        \* rooms collected so far
    warnings,     \* warnings collected so far
    calls,        \* history: the extractor invocations, in order
    outcome,      \* how the call ended
    result        \* the value returned: <<>> or <<r>>

vars == <<entry, filename, fitz, plumber, content, hint, doc, pages, arg, pc,
          style_enum, handle, style, fn, k, page_rooms, alt, room_counter,
          rooms, warnings, calls, outcome, result>>

(***************************************************************************)
(* Bounds of the model.                                                    *)
(***************************************************************************)
MaxLines == 3       \* lines per page in the extractor-level specification
MaxPages == 2       \* pages per document in the call-level specification
FracDigits == 3     \* decimal digits kept by the exact-decimal arithmetic

RECURSIVE Pow10(_)
Pow10(n) == IF n = 0 THEN 1 ELSE 10 * Pow10(n - 1)
Scale == Pow10(FracDigits)

Min(a, b) == IF a <= b THEN a ELSE b

(***************************************************************************)
(* Characters.                                                             *)
(***************************************************************************)
Digits == {"0", "1", "2", "3", "4", "5", "6", "7", "8", "9"}
UpperSeq == <<"A", "B", "C", "D", "E", "F", "G", "H", "I", "J", "K", "L", "M",
              "N", "O", "P", "Q", "R", "S", "T", "U", "V", "W", "X", "Y", "Z",
              "Ä", "Ö", "Ü">>
LowerSeq == <<"a", "b", "c", "d", "e", "f", "g", "h", "i", "j", "k", "l", "m",
              "n", "o", "p", "q", "r", "s", "t", "u", "v", "w", "x", "y", "z",
              "ä", "ö", "ü">>
AZ == {UpperSeq[i] : i \in 1..26}                 \* [A-Z]
az == {LowerSeq[i] : i \in 1..26}                 \* [a-z]
Spaces == {" ", "\t", "\n"}                       \* \s
WordChars == Digits \cup {UpperSeq[i] : i \in 1..Len(UpperSeq)}
             \cup {LowerSeq[i] : i \in 1..Len(LowerSeq)} \cup {"_", "²"}  \* \w

\* str.lower() on one character
LowerOf == [c \in {UpperSeq[i] : i \in 1..Len(UpperSeq)} |->
               LowerSeq[CHOOSE i \in 1..Len(UpperSeq) : UpperSeq[i] = c]]
LowerChar(c) == IF c \in DOMAIN LowerOf THEN LowerOf[c] ELSE c

\* str.lower()
lower(s) == [i \in 1..Len(s) |-> LowerChar(s[i])]

\* str.strip()
RECURSIVE lstrip(_)
lstrip(s) == IF s # <<>> /\ Head(s) \in Spaces THEN lstrip(Tail(s)) ELSE s
RECURSIVE rstrip(_)
rstrip(s) ==
    IF s # <<>> /\ s[Len(s)] \in Spaces THEN rstrip(SubSeq(s, 1, Len(s) - 1)) ELSE s
strip(s) == rstrip(lstrip(s))

\* s[i..] starts with lit (re without IGNORECASE); the position after it, or 0
Lit(s, i, lit) ==
    IF i >= 1 /\ i + Len(lit) - 1 <= Len(s)
       /\ \A n \in 1..Len(lit) : s[i + n - 1] = lit[n]
    THEN i + Len(lit) ELSE 0

\* the same under re.IGNORECASE
LitI(s, i, lit) ==
    IF i >= 1 /\ i + Len(lit) - 1 <= Len(s)
       /\ \A n \in 1..Len(lit) : LowerChar(s[i + n - 1]) = LowerChar(lit[n])
    THEN i + Len(lit) ELSE 0

LitC(s, i, lit, ic) == IF ic THEN LitI(s, i, lit) ELSE Lit(s, i, lit)

\* the position after the longest run of characters of class C from i (C*)
RECURSIVE Run(_, _, _)
Run(s, i, C) == IF i <= Len(s) /\ s[i] \in C THEN Run(s, i + 1, C) ELSE i

\* C+ from i: the position after it, or 0
Run1(s, i, C) == IF i = 0 \/ i > Len(s) \/ s[i] \notin C THEN 0 ELSE Run(s, i, C)

\* the first of the literals that s[i..] starts with: the position after it, or 0
RECURSIVE AnyLit(_, _, _, _)
AnyLit(s, i, lits, ic) ==
    IF lits = <<>> THEN 0
    ELSE IF LitC(s, i, Head(lits), ic) # 0 THEN LitC(s, i, Head(lits), ic)
    ELSE AnyLit(s, i, Tail(lits), ic)

\* \b at position i (between s[i-1] and s[i])
WordBoundary(s, i) ==
    LET before == i > 1 /\ i - 1 <= Len(s) /\ s[i - 1] \in WordChars
        after  == i >= 1 /\ i <= Len(s) /\ s[i] \in WordChars
    IN  before # after

\* sub occurs in s (Python's `sub in s`)
IsSubstring(sub, s) ==
    \E i \in 1..(Len(s) - Len(sub) + 1) : Lit(s, i, sub) # 0

(***************************************************************************)
(* (NUM+)\s*m  from position i, NUM the class of the capture group.        *)
(* The optional [²2] that follows m in the source's patterns never changes *)
(* whether the pattern matches nor what it captures.  A match is           *)
(* <<capture>>, no match is <<>>.                                          *)
(***************************************************************************)
DC  == Digits \cup {","}            \* [\d,]
DPC == Digits \cup {".", ","}       \* [\d.,]

NumM(s, i, C, ic) ==
    IF i = 0 THEN <<>>
    ELSE LET b == Run1(s, i, C)
         IN  IF b = 0 THEN <<>>
             ELSE IF LitC(s, Run(s, b, Spaces), <<"m">>, ic) = 0 THEN <<>>
             ELSE <<SubSeq(s, i, b - 1)>>

\* the same, the pattern ending in  m\b
NumMB(s, i, C, ic) ==
    IF i = 0 THEN <<>>
    ELSE LET b == Run1(s, i, C)
             e == IF b = 0 THEN 0 ELSE LitC(s, Run(s, b, Spaces), <<"m">>, ic)
         IN  IF e = 0 \/ ~WordBoundary(s, e) THEN <<>>
             ELSE <<SubSeq(s, i, b - 1)>>

(***************************************************************************)
(* parse_german_number.  <<v>> is the float v (in units of 1/Scale), <<>>  *)
(* is the ValueError float() raises.                                       *)
(***************************************************************************)
RECURSIVE DigitsValue(_)
DigitsValue(ds) ==
    IF ds = <<>> THEN 0
    ELSE 10 * DigitsValue(SubSeq(ds, 1, Len(ds) - 1))
         + (CHOOSE d \in 0..9 : ToString(d) = ds[Len(ds)])

\* str.replace(a, b) for one-character a; b is a string, possibly empty
RECURSIVE replace(_, _, _)
replace(s, a, b) ==
    IF s = <<>> THEN <<>>
    ELSE (IF Head(s) = a THEN b ELSE <<Head(s)>>) \o replace(Tail(s), a, b)

\* float(s) for s over digits and '.': digits with at most one '.', and at
\* least one digit
float(s) ==
    LET dots == {i \in 1..Len(s) : s[i] = "."}
        p    == IF dots = {} THEN Len(s) + 1 ELSE CHOOSE i \in dots : TRUE
        ip   == SubSeq(s, 1, p - 1)
        fp   == SubSeq(s, p + 1, Len(s))
        fd   == [i \in 1..FracDigits |-> IF i <= Len(fp) THEN fp[i] ELSE "0"]
    IN  IF Cardinality(dots) > 1 \/ Len(ip) + Len(fp) = 0
           \/ \E i \in 1..Len(s) : s[i] \notin Digits \cup {"."}
        THEN <<>>
        ELSE <<DigitsValue(ip) * Scale + DigitsValue(fd)>>

\* every token treated as the simple comma-decimal form
parse_comma_decimal(s0) == float(replace(strip(s0), ",", <<".">>))
parse_german_number(s0) ==
    LET s == strip(s0)
    IN  IF (\E i \in 1..Len(s) : s[i] = ".") /\ (\E i \in 1..Len(s) : s[i] = ",")
        THEN float(replace(replace(s, ".", <<>>), ",", <<".">>))
        ELSE float(replace(s, ",", <<".">>))

(***************************************************************************)
(* f"{area}": repr of a float, for the values the model reaches (no        *)
(* exponent form): the integer part, '.', the fraction without trailing    *)
(* zeros but with at least one digit.                                      *)
(***************************************************************************)
RECURSIVE NatStr(_)
NatStr(n) ==
    IF n < 10 THEN <<ToString(n)>> ELSE NatStr(n \div 10) \o <<ToString(n % 10)>>

RECURSIVE FracStr(_, _)
FracStr(f, width) ==
    IF width = 1 \/ f = 0 THEN <<ToString(f \div Pow10(width - 1))>>
    ELSE <<ToString(f \div Pow10(width - 1))>>
         \o (IF f % Pow10(width - 1) = 0 THEN <<>>
             ELSE FracStr(f % Pow10(width - 1), width - 1))

FloatStr(v) == NatStr(v \div Scale) \o <<".">> \o FracStr(v % Scale, FracDigits)

(***************************************************************************)
(* round(x, 2) for x = area * 0.5.  area * 0.5 is x2 / (2 * Scale).  When  *)
(* the decimal value lies exactly between two hundredths the float lies    *)
(* just above or just below it, depending on the representation error of   *)
(* area: tieUp says which.                                                 *)
(***************************************************************************)
\* the area divided by the factor instead of multiplied by it
RoundDouble2(area, tieUp) == 2 * area
\* the halved area cut to two decimal digits instead of rounded
TruncHalf2(area, tieUp) == (area \div ((2 * Scale) \div 100)) * (Scale \div 100)
RoundHalf2(area, tieUp) ==
    LET h == (2 * Scale) \div 100       \* one hundredth, in units of 1/(2*Scale)
        q == area \div h
        r == area % h
        n == IF 2 * r > h \/ (2 * r = h /\ tieUp) THEN q + 1 ELSE q
    IN  n * (Scale \div 100)

\* \s* from position i (0 stays 0)
Ws(s, i) == IF i = 0 THEN 0 ELSE Run(s, i, Spaces)

(***************************************************************************)
(* ROOM_CATEGORIES, in the dict's insertion order, and categorize_room.    *)
(***************************************************************************)
ROOM_CATEGORIES == <<
    [category |-> "office",
     keywords |-> <<<<"b", "ü", "r", "o">>, <<"o", "f", "f", "i", "c", "e">>, <<"n", "u", "t", "z", "u", "n", "g", "s", "e", "i", "n", "h", "e", "i", "t">>, <<"b", "a", "c", "k", " ", "o", "f", "f", "i", "c", "e">>>>],
    [category |-> "residential",
     keywords |-> <<<<"s", "c", "h", "l", "a", "f", "e", "n">>, <<"w", "o", "h", "n", "e", "n">>, <<"e", "s", "s", "e", "n">>, <<"k", "o", "c", "h", "e", "n">>, <<"z", "i", "m", "m", "e", "r">>, <<"k", "ü", "c", "h", "e">>>>],
    [category |-> "circulation",
     keywords |-> <<<<"f", "l", "u", "r">>, <<"d", "i", "e", "l", "e">>, <<"s", "c", "h", "l", "e", "u", "s", "e">>, <<"v", "o", "r", "r", "a", "u", "m">>, <<"e", "i", "n", "g", "a", "n", "g">>, <<"l", "o", "b", "b", "y">>>>],
    [category |-> "stairs",
     keywords |-> <<<<"t", "r", "e", "p", "p", "e">>, <<"t", "r", "e", "p", "p", "e", "n", "h", "a", "u", "s">>, <<"t", "r", "h">>>>],
    [category |-> "elevators",
     keywords |-> <<<<"a", "u", "f", "z", "u", "g">>, <<"l", "i", "f", "t">>, <<"a", "u", "f", "z", "u", "g", "s", "s", "c", "h", "a", "c", "h", "t">>, <<"a", "u", "f", "z", "u", "g", "s", "v", "o", "r", "r">>>>],
    [category |-> "shafts",
     keywords |-> <<<<"s", "c", "h", "a", "c", "h", "t">>, <<"l", "ü", "f", "t", "u", "n", "g">>, <<"m", "e", "d", "i", "e", "n">>, <<"d", "r", "u", "c", "k", "b", "e", "l", "ü", "f", "t", "u", "n", "g">>>>],
    [category |-> "technical",
     keywords |-> <<<<"e", "l", "e", "k", "t", "r", "o">>, <<"t", "e", "c", "h", "n", "i", "k">>, <<"h", "w", "r">>, <<"i", "t", " ", "v", "e", "r", "t", "e", "i", "l", "e", "r">>, <<"e", "l", "t">>, <<"g", "l", "t">>, <<"f", "i", "z">>>>],
    [category |-> "sanitary",
     keywords |-> <<<<"w", "c">>, <<"b", "a", "d">>, <<"d", "u", "s", "c", "h", "e">>, <<"g", "ä", "s", "t", "e", "b", "a", "d">>, <<"u", "m", "k", "l", "e", "i", "d", "e">>, <<"s", "a", "n", "i", "t", "ä", "r">>>>],
    [category |-> "storage",
     keywords |-> <<<<"l", "a", "g", "e", "r">>, <<"a", "b", "s", "t", "e", "l", "l", "r", "a", "u", "m">>, <<"m", "ü", "l", "l">>, <<"f", "a", "h", "r", "r", "a", "d">>>>],
    [category |-> "outdoor",
     keywords |-> <<<<"b", "a", "l", "k", "o", "n">>, <<"t", "e", "r", "r", "a", "s", "s", "e">>, <<"l", "o", "g", "g", "i", "a">>, <<"d", "a", "c", "h", "t", "e", "r", "r", "a", "s", "s", "e">>, <<"f", "r", "e", "i", "s", "i", "t", "z">>>>] >>

\* the last matching category of the table instead of the first
categorize_last(name_lower, c) ==
    LET hits == {m \in c..Len(ROOM_CATEGORIES) :
                    \E n \in 1..Len(ROOM_CATEGORIES[m].keywords) :
                        IsSubstring(ROOM_CATEGORIES[m].keywords[n], name_lower)}
    IN  IF hits = {} THEN "other"
        ELSE ROOM_CATEGORIES[CHOOSE m \in hits : \A o \in hits : o <= m].category
RECURSIVE categorize_from(_, _)
categorize_from(name_lower, c) ==
    IF c > Len(ROOM_CATEGORIES) THEN "other"
    ELSE IF \E n \in 1..Len(ROOM_CATEGORIES[c].keywords) :
               IsSubstring(ROOM_CATEGORIES[c].keywords[n], name_lower)
    THEN ROOM_CATEGORIES[c].category
    ELSE categorize_from(name_lower, c + 1)

categorize_room(room_name) == categorize_from(lower(room_name), 1)

is_outdoor_room(room_name) == categorize_room(room_name) = "outdoor"

(***************************************************************************)
(* The record of one room (ExtractedRoom).  Optional fields are <<>> for   *)
(* None and <<v>> for a value; bbox is never set by the extractors.        *)
(***************************************************************************)
Unknown == <<"U", "n", "k", "n", "o", "w", "n">>

ExtractedRoom(room_number, room_name, area_m2, counted_m2, factor, page, source_text, category, perimeter_m, height_m, factor_source, extraction_pattern) ==
    [room_number |-> room_number, room_name |-> room_name, area_m2 |-> area_m2,
     counted_m2 |-> counted_m2, factor |-> factor, page |-> page,
     source_text |-> source_text, category |-> category,
     perimeter_m |-> perimeter_m, height_m |-> height_m,
     factor_source |-> factor_source, extraction_pattern |-> extraction_pattern]

\* what an extractor call does: it returns rooms, or an exception leaves it
Returned(rs) == [raised |-> FALSE, rooms |-> rs]
Raised == [raised |-> TRUE, rooms |-> <<>>]

\* the rooms of the lines after line i, with room r emitted before them
Emit(r, rest) == IF rest.raised THEN Raised ELSE Returned(<<r>> \o rest.rooms)

\* the lookahead range(i + 1, min(len(lines), i + 15)) ends at this line
LOOKAHEAD == 15
\* a lookahead that runs to the end of the page
WindowEndOfPage(lines, i) == Len(lines)
WindowEnd(lines, i) == Min(Len(lines), i + LOOKAHEAD - 1)

\* `x or "Unknown"` for an optional string
OrUnknown(room_name) ==
    IF room_name = <<>> \/ room_name[1] = <<>> THEN Unknown ELSE room_name[1]

\* `if x:` for an optional number, and for an optional string
Truthy(x) == x # <<>> /\ x[1] # 0
TruthyStr(x) == x # <<>> /\ x[1] # <<>>

(***************************************************************************)
(* extract_haardtring                                                      *)
(***************************************************************************)
\* ^R\d+\.E\d+\.\d+\.\d+ : the position after the match, or 0
ReRFull(s) ==
    LET a == Run1(s, Lit(s, 1, <<"R">>), Digits)
        b == Run1(s, Lit(s, a, <<".", "E">>), Digits)
        c == Run1(s, Lit(s, b, <<".">>), Digits)
    IN  Run1(s, Lit(s, c, <<".">>), Digits)

\* ^R\d+[A-Z]
ReRSimple(s) ==
    LET a == Run1(s, Lit(s, 1, <<"R">>), Digits)
    IN  IF a # 0 /\ a <= Len(s) /\ s[a] \in AZ THEN a + 1 ELSE 0

\* (?:\.\d+)* from position i
RECURSIVE DotNums(_, _)
DotNums(s, i) ==
    LET e == Run1(s, Lit(s, i, <<".">>), Digits)
    IN  IF e = 0 THEN i ELSE DotNums(s, e)

\* ^E\.[A-Z0-9]+(?:\.\d+)+
ReEApartment(s) ==
    LET a == Run1(s, Lit(s, 1, <<"E", ".">>), AZ \cup Digits)
        b == Run1(s, Lit(s, a, <<".">>), Digits)
    IN  IF b = 0 THEN 0 ELSE DotNums(s, b)

\* room_patterns, first match wins: <<group(1)>> or <<>>
haardtring_room_match(line) ==
    IF ReRFull(line) # 0 THEN <<SubSeq(line, 1, ReRFull(line) - 1)>>
    ELSE IF ReRSimple(line) # 0 THEN <<SubSeq(line, 1, ReRSimple(line) - 1)>>
    ELSE IF ReEApartment(line) # 0 THEN <<SubSeq(line, 1, ReEApartment(line) - 1)>>
    ELSE <<>>

\* ^(F:|BA:|B:|W:|D:|[\d,]+)
haardtring_not_a_name(s) ==
    \/ AnyLit(s, 1, <<<<"F", ":">>, <<"B", "A", ":">>, <<"B", ":">>, <<"W", ":">>, <<"D", ":">>>>, FALSE) # 0
    \/ Run1(s, 1, DC) # 0

\* ^F:\s*([\d,]+)\s*m[²2]?  with re.IGNORECASE
haardtring_f_match(s) == NumM(s, Ws(s, LitI(s, 1, <<"F", ":">>)), DC, TRUE)

\* ^50%:\s*([\d,]+)\s*m[²2]?
haardtring_b_match(s) == NumM(s, Ws(s, Lit(s, 1, <<"5", "0", "%", ":">>)), DC, FALSE)

\* ^([\d,]+)\s*m[²2]?
haardtring_area_match(s) == NumM(s, 1, DC, FALSE)

\* the three re.match calls that end a lookahead at the next room
haardtring_next_room(curr) ==
    \/ ReRFull(curr) # 0
    \/ ReRSimple(curr) = Len(curr) + 1          \* ^R\d+[A-Z]$
    \/ ReEApartment(curr) # 0

HWindow(raised, area, balcony_area) ==
    [raised |-> raised, area |-> area, balcony_area |-> balcony_area]

\* area = parse(...); then the 50% line at line b, if there is one
haardtring_area_found(lines, num, b) ==
    LET area    == parse_german_number(num)
        b_match == IF b <= Len(lines) THEN haardtring_b_match(strip(lines[b])) ELSE <<>>
    IN  IF area = <<>> THEN HWindow(TRUE, <<>>, <<>>)
        ELSE IF b_match = <<>> THEN HWindow(FALSE, area, <<>>)
        ELSE IF parse_german_number(b_match[1]) = <<>> THEN HWindow(TRUE, <<>>, <<>>)
        ELSE HWindow(FALSE, area, parse_german_number(b_match[1]))

\* for j in range(i + 1, min(len(lines), i + 15)), from line j
RECURSIVE haardtring_window(_, _, _)
haardtring_window(lines, j, hi) ==
    IF j > hi THEN HWindow(FALSE, <<>>, <<>>)
    ELSE LET curr    == strip(lines[j])
             f_match == haardtring_f_match(curr)
         IN  IF f_match # <<>> THEN haardtring_area_found(lines, f_match[1], j + 1)
             ELSE IF /\ curr = <<"F", ":">>
                     /\ j + 1 <= Len(lines)
                     /\ haardtring_area_match(strip(lines[j + 1])) # <<>>
             THEN haardtring_area_found(
                      lines, haardtring_area_match(strip(lines[j + 1]))[1], j + 2)
             ELSE IF haardtring_next_room(curr) THEN HWindow(FALSE, <<>>, <<>>)
             ELSE haardtring_window(lines, j + 1, hi)

\* the room name taken from the line after the anchor, by the style's filter
haardtring_room_name(lines, i) ==
    IF i + 1 <= Len(lines)
       /\ strip(lines[i + 1]) # <<>>
       /\ ~haardtring_not_a_name(strip(lines[i + 1]))
    THEN <<strip(lines[i + 1])>> ELSE <<>>

\* the record appended for an anchor whose window found an area
haardtring_room(room_num, room_name, area, balcony_area, page_idx, tieUp) ==
    LET over    == Truthy(balcony_area)
        outdoor == ~over /\ TruthyStr(room_name) /\ is_outdoor_room(room_name[1])
    IN  ExtractedRoom(
            room_num, OrUnknown(room_name), area,
            IF over THEN balcony_area[1]
            ELSE IF outdoor THEN RoundHalf2(area, tieUp) ELSE area,
            IF over \/ outdoor THEN Scale \div 2 ELSE Scale,
            page_idx,
            <<"F", ":", " ">> \o FloatStr(area),
            categorize_room(IF room_name = <<>> THEN <<>> ELSE room_name[1]),
            <<>>, <<>>,
            IF over THEN "explicit_50%"
            ELSE IF outdoor THEN "default_outdoor" ELSE "None",
            <<"F", ":">>)

\* while i < len(lines), from line i
RECURSIVE haardtring_scan(_, _, _, _)
haardtring_scan(lines, page_idx, i, tieUp) ==
    IF i > Len(lines) THEN Returned(<<>>)
    ELSE LET room_match == haardtring_room_match(strip(lines[i]))
             w == haardtring_window(lines, i + 1, WindowEnd(lines, i))
         IN  IF room_match = <<>> THEN haardtring_scan(lines, page_idx, i + 1, tieUp)
             ELSE IF w.raised THEN Raised
             ELSE IF Truthy(w.area)
             THEN Emit(haardtring_room(room_match[1], haardtring_room_name(lines, i),
                                       w.area[1], w.balcony_area, page_idx, tieUp),
                       haardtring_scan(lines, page_idx, i + 1, tieUp))
             ELSE haardtring_scan(lines, page_idx, i + 1, tieUp)

extract_haardtring(lines, page_idx, tieUp) == haardtring_scan(lines, page_idx, 1, tieUp)

(***************************************************************************)
(* extract_leiq                                                            *)
(***************************************************************************)
\* ^(B\.\d+\.[0-9A-Z]+\.[A-Z]?\d+(?:-[A-Z])?) : <<group(1)>> or <<>>
leiq_room_match(s) ==
    LET a == Run1(s, Lit(s, 1, <<"B", ".">>), Digits)
        b == Run1(s, Lit(s, a, <<".">>), Digits \cup AZ)
        c == Lit(s, b, <<".">>)
        d == IF c # 0 /\ c <= Len(s) /\ s[c] \in AZ THEN c + 1 ELSE c
        e == Run1(s, d, Digits)
        f == IF e # 0 /\ e + 1 <= Len(s) /\ s[e] = "-" /\ s[e + 1] \in AZ
             THEN e + 2 ELSE e
    IN  IF e = 0 THEN <<>> ELSE <<SubSeq(s, 1, f - 1)>>

\* ^(NRF|F[=:]|U[=:]|LH[=:]|LRH[=:]|B\.|[\d,]+)  with re.IGNORECASE
leiq_not_a_name(s) ==
    \/ AnyLit(s, 1, <<<<"N", "R", "F">>, <<"F", "=">>, <<"F", ":">>, <<"U", "=">>, <<"U", ":">>, <<"L", "H", "=">>, <<"L", "H", ":">>,
                      <<"L", "R", "H", "=">>, <<"L", "R", "H", ":">>, <<"B", ".">>>>, TRUE) # 0
    \/ Run1(s, 1, DC) # 0

\* ^NRF[=:]\s*([\d.,]+)\s*m[²2]?  with re.IGNORECASE
leiq_nrf_match(s) == NumM(s, Ws(s, AnyLit(s, 1, <<<<"N", "R", "F", "=">>, <<"N", "R", "F", ":">>>>, TRUE)), DPC, TRUE)

\* ^F[=:]\s*([\d.,]+)\s*m[²2]?  with re.IGNORECASE
leiq_f_match(s) == NumM(s, Ws(s, AnyLit(s, 1, <<<<"F", "=">>, <<"F", ":">>>>, TRUE)), DPC, TRUE)

\* ^([\d.,]+)\s*m[²2]?
leiq_area_match(s) == NumM(s, 1, DPC, FALSE)

\* ^U[=:]\s*([\d.,]+)\s*m\b  with re.IGNORECASE
leiq_u_match(s) == NumMB(s, Ws(s, AnyLit(s, 1, <<<<"U", "=">>, <<"U", ":">>>>, TRUE)), DPC, TRUE)

\* ^L(?:R)?H[=:]\s*([\d.,]+)\s*m\b  with re.IGNORECASE
leiq_lh_match(s) ==
    NumMB(s, Ws(s, AnyLit(s, 1, <<<<"L", "R", "H", "=">>, <<"L", "R", "H", ":">>, <<"L", "H", "=">>, <<"L", "H", ":">>>>, TRUE)), DPC, TRUE)

\* curr in ('NRF:', 'NRF=', 'F:', 'F=')
leiq_bare_label(curr) == curr \in {<<"N", "R", "F", ":">>, <<"N", "R", "F", "=">>, <<"F", ":">>, <<"F", "=">>}

LWindow(raised, area, pattern_used, perimeter, height) ==
    [raised |-> raised, area |-> area, pattern_used |-> pattern_used,
     perimeter |-> perimeter, height |-> height]

\* for j in range(i + 1, min(len(lines), i + 15)), from line j, w the
\* candidate's variables so far
RECURSIVE leiq_window(_, _, _, _)
leiq_window(lines, j, hi, w) ==
    IF j > hi THEN w
    ELSE LET curr      == strip(lines[j])
             nrf_match == leiq_nrf_match(curr)
             f_match   == leiq_f_match(curr)
             split     == IF leiq_bare_label(curr) /\ j + 1 <= Len(lines)
                          THEN leiq_area_match(strip(lines[j + 1])) ELSE <<>>
             u_match   == leiq_u_match(curr)
             lh_match  == leiq_lh_match(curr)
             failed    == LWindow(TRUE, <<>>, <<>>, <<>>, <<>>)
         IN  IF nrf_match # <<>> /\ w.area = <<>>
             THEN IF parse_german_number(nrf_match[1]) = <<>> THEN failed
                  ELSE leiq_window(lines, j + 1, hi,
                           [w EXCEPT !.area = parse_german_number(nrf_match[1]),
                                     !.pattern_used = <<<<"N", "R", "F", ":">>>>])
             ELSE IF f_match # <<>> /\ w.area = <<>>
             THEN IF parse_german_number(f_match[1]) = <<>> THEN failed
                  ELSE leiq_window(lines, j + 1, hi,
                           [w EXCEPT !.area = parse_german_number(f_match[1]),
                                     !.pattern_used = <<<<"F", "=">>>>])
             ELSE IF split # <<>> /\ w.area = <<>>
             THEN IF parse_german_number(split[1]) = <<>> THEN failed
                  ELSE leiq_window(lines, j + 1, hi,
                           [w EXCEPT !.area = parse_german_number(split[1]),
                                     !.pattern_used = <<curr>>])
             ELSE IF u_match # <<>>
             THEN IF parse_german_number(u_match[1]) = <<>> THEN failed
                  ELSE leiq_window(lines, j + 1, hi,
                           [w EXCEPT !.perimeter = parse_german_number(u_match[1])])
             ELSE IF lh_match # <<>>
             THEN IF parse_german_number(lh_match[1]) = <<>> THEN failed
                  ELSE leiq_window(lines, j + 1, hi,
                           [w EXCEPT !.height = parse_german_number(lh_match[1])])
             ELSE IF leiq_room_match(curr) # <<>> THEN w
             ELSE leiq_window(lines, j + 1, hi, w)

leiq_room_name(lines, i) ==
    IF i + 1 <= Len(lines)
       /\ strip(lines[i + 1]) # <<>>
       /\ ~leiq_not_a_name(strip(lines[i + 1]))
    THEN <<strip(lines[i + 1])>> ELSE <<>>

\* the modern label reported whatever form supplied the area
leiq_pattern_modern(pattern_used) == <<"N", "R", "F", ":">>
\* `pattern_used or 'NRF:'`
leiq_pattern(pattern_used) ==
    IF TruthyStr(pattern_used) THEN pattern_used[1] ELSE <<"N", "R", "F", ":">>

leiq_room(room_num, room_name, w, page_idx) ==
    ExtractedRoom(
        room_num, OrUnknown(room_name), w.area[1], w.area[1], Scale, page_idx,
        leiq_pattern(w.pattern_used) \o <<" ">> \o FloatStr(w.area[1]),
        categorize_room(IF room_name = <<>> THEN <<>> ELSE room_name[1]),
        w.perimeter, w.height, "None", leiq_pattern(w.pattern_used))

RECURSIVE leiq_scan(_, _, _)
leiq_scan(lines, page_idx, i) ==
    IF i > Len(lines) THEN Returned(<<>>)
    ELSE LET room_match == leiq_room_match(strip(lines[i]))
             w == leiq_window(lines, i + 1, WindowEnd(lines, i),
                              LWindow(FALSE, <<>>, <<>>, <<>>, <<>>))
         IN  IF room_match = <<>> THEN leiq_scan(lines, page_idx, i + 1)
             ELSE IF w.raised THEN Raised
             ELSE IF Truthy(w.area)
             THEN Emit(leiq_room(room_match[1], leiq_room_name(lines, i), w, page_idx),
                       leiq_scan(lines, page_idx, i + 1))
             ELSE leiq_scan(lines, page_idx, i + 1)

extract_leiq(lines, page_idx) == leiq_scan(lines, page_idx, 1)

(***************************************************************************)
(* extract_omniturm                                                        *)
(***************************************************************************)
\* ^(\d+_[a-z]\d+\.\d+|BT\d+\.[A-Z]+\.\d+) : the position after the match, or 0
omniturm_room_match(s) ==
    LET a == Run1(s, 1, Digits)
        b == Lit(s, a, <<"_">>)
        c == IF b # 0 /\ b <= Len(s) /\ s[b] \in az THEN Run1(s, b + 1, Digits) ELSE 0
        grid == Run1(s, Lit(s, c, <<".">>), Digits)
        p == Run1(s, Lit(s, 1, <<"B", "T">>), Digits)
        q == Run1(s, Lit(s, p, <<".">>), AZ)
        bt == Run1(s, Lit(s, q, <<".">>), Digits)
    IN  IF grid # 0 THEN grid ELSE bt

\* ^(NGF|UKRD|UKFD|OKFF|OKRF|LRH|[\d,]+\s*m|Schacht)
omniturm_not_a_name(s) ==
    \/ AnyLit(s, 1, <<<<"N", "G", "F">>, <<"U", "K", "R", "D">>, <<"U", "K", "F", "D">>, <<"O", "K", "F", "F">>, <<"O", "K", "R", "F">>, <<"L", "R", "H">>,
                      <<"S", "c", "h", "a", "c", "h", "t">>>>, FALSE) # 0
    \/ NumM(s, 1, DC, FALSE) # <<>>

\* ^NGF:\s*([\d.,]+)\s*m[²2]?  with re.IGNORECASE
omniturm_ngf_match(s) == NumM(s, Ws(s, LitI(s, 1, <<"N", "G", "F", ":">>)), DPC, TRUE)

\* ^([\d.,]+)\s*m[²2]?
omniturm_area_match(s) == NumM(s, 1, DPC, FALSE)

\* ^(Schacht \d+) : <<group(1)>> or <<>>
omniturm_schacht_match(s) ==
    LET e == Run1(s, Lit(s, 1, <<"S", "c", "h", "a", "c", "h", "t", " ">>), Digits)
    IN  IF e = 0 THEN <<>> ELSE <<SubSeq(s, 1, e - 1)>>

\* ^([\d,]+)\s*m[²2]?  on the area line of a named shaft
omniturm_schacht_area(s) == NumM(s, 1, DC, FALSE)

OWindow(raised, room_name, area) ==
    [raised |-> raised, room_name |-> room_name, area |-> area]

\* the shaft branch: the name, the type line at j + 1, the area line at j + 2
omniturm_schacht(lines, j, g1) ==
    LET type_line == strip(lines[j + 1])
        area_line == strip(lines[j + 2])
        named     == IF type_line # <<>> /\ type_line[1] \in DC
                     THEN g1 ELSE g1 \o <<" ", "(">> \o type_line \o <<")">>
    IN  [room_name |-> <<named>>, area_match |-> omniturm_schacht_area(area_line)]

\* for j in range(i + 1, min(len(lines), i + 15)), from line j
RECURSIVE omniturm_window(_, _, _, _)
omniturm_window(lines, j, hi, room_name) ==
    IF j > hi THEN OWindow(FALSE, room_name, <<>>)
    ELSE LET curr  == strip(lines[j])
             named == IF room_name = <<>> /\ curr # <<>> /\ ~omniturm_not_a_name(curr)
                      THEN <<curr>> ELSE room_name
             ngf_match == omniturm_ngf_match(curr)
             split == IF curr = <<"N", "G", "F", ":">> /\ j + 1 <= Len(lines)
                      THEN omniturm_area_match(strip(lines[j + 1])) ELSE <<>>
             schacht_match == omniturm_schacht_match(curr)
             sh == omniturm_schacht(lines, j, schacht_match[1])
         IN  IF omniturm_room_match(curr) # 0 THEN OWindow(FALSE, room_name, <<>>)
             ELSE IF ngf_match # <<>>
             THEN IF parse_german_number(ngf_match[1]) = <<>>
                  THEN OWindow(TRUE, <<>>, <<>>)
                  ELSE OWindow(FALSE, named, parse_german_number(ngf_match[1]))
             ELSE IF split # <<>>
             THEN IF parse_german_number(split[1]) = <<>>
                  THEN OWindow(TRUE, <<>>, <<>>)
                  ELSE OWindow(FALSE, named, parse_german_number(split[1]))
             ELSE IF schacht_match # <<>>
             THEN IF j + 2 <= Len(lines)
                  THEN IF sh.area_match # <<>>
                       THEN IF parse_german_number(sh.area_match[1]) = <<>>
                            THEN OWindow(TRUE, <<>>, <<>>)
                            ELSE OWindow(FALSE, sh.room_name,
                                         parse_german_number(sh.area_match[1]))
                       ELSE omniturm_window(lines, j + 1, hi, sh.room_name)
                  ELSE omniturm_window(lines, j + 1, hi, schacht_match)
             ELSE omniturm_window(lines, j + 1, hi, named)

omniturm_room(room_num, room_name, area, page_idx) ==
    ExtractedRoom(
        room_num, OrUnknown(room_name), area, area, Scale, page_idx,
        <<"N", "G", "F", ":", " ">> \o FloatStr(area),
        categorize_room(IF room_name = <<>> THEN <<>> ELSE room_name[1]),
        <<>>, <<>>, "None", <<"N", "G", "F", ":">>)

\* a scan that emits for every occurrence of an anchor line
RECURSIVE omniturm_scan_revisit(_, _, _, _)
omniturm_scan_revisit(lines, page_idx, i, processed) ==
    IF i > Len(lines) THEN Returned(<<>>)
    ELSE LET line == strip(lines[i])
             w == omniturm_window(lines, i + 1, WindowEnd(lines, i), <<>>)
         IN  IF omniturm_room_match(line) = 0
             THEN omniturm_scan_revisit(lines, page_idx, i + 1, processed)
             ELSE IF w.raised THEN Raised
             ELSE IF Truthy(w.area)
             THEN Emit(omniturm_room(line, w.room_name, w.area[1], page_idx),
                       omniturm_scan_revisit(lines, page_idx, i + 1, processed))
             ELSE omniturm_scan_revisit(lines, page_idx, i + 1, processed)

\* while i < len(lines), from line i, with the set `processed` so far
RECURSIVE omniturm_scan(_, _, _, _)
omniturm_scan(lines, page_idx, i, processed) ==
    IF i > Len(lines) THEN Returned(<<>>)
    ELSE LET line == strip(lines[i])
             w == omniturm_window(lines, i + 1, WindowEnd(lines, i), <<>>)
         IN  IF omniturm_room_match(line) = 0 \/ line \in processed
             THEN omniturm_scan(lines, page_idx, i + 1, processed)
             ELSE IF w.raised THEN Raised
             ELSE IF Truthy(w.area)
             THEN Emit(omniturm_room(line, w.room_name, w.area[1], page_idx),
                       omniturm_scan(lines, page_idx, i + 1, processed \cup {line}))
             ELSE omniturm_scan(lines, page_idx, i + 1, processed)

extract_omniturm(lines, page_idx) == omniturm_scan(lines, page_idx, 1, {})

(***************************************************************************)
(* extract_generic                                                         *)
(***************************************************************************)
\* \s*[=:]\s* from position i: the position after it, or 0
EqColon(s, i) ==
    LET a == Ws(s, i)
    IN  IF a # 0 /\ a <= Len(s) /\ s[a] \in {"=", ":"} THEN Ws(s, a + 1) ELSE 0

\* ([\d.,]+)\s*qm\b  from position i, with re.IGNORECASE
NumQM(s, i) ==
    IF i = 0 THEN <<>>
    ELSE LET b == Run1(s, i, DPC)
             e == IF b = 0 THEN 0 ELSE LitI(s, Run(s, b, Spaces), <<"q", "m">>)
         IN  IF e = 0 \/ ~WordBoundary(s, e) THEN <<>>
             ELSE <<SubSeq(s, i, b - 1)>>

\* (?:l1|l2|...)\s*[=:]\s*([\d.,]+)\s*(m|qm\b) tried at position p, the
\* alternatives in order: <<capture>> or <<>>
RECURSIVE LabelNumAt(_, _, _, _)
LabelNumAt(s, p, labels, qm) ==
    IF labels = <<>> THEN <<>>
    ELSE LET e == EqColon(s, LitI(s, p, Head(labels)))
             m == IF qm THEN NumQM(s, e) ELSE NumM(s, e, DPC, TRUE)
         IN  IF m # <<>> THEN m ELSE LabelNumAt(s, p, Tail(labels), qm)

\* pattern.search: the match at the leftmost position that has one
LabelNumSearch(s, labels, qm) ==
    LET hits == {p \in 1..Len(s) : LabelNumAt(s, p, labels, qm) # <<>>}
    IN  IF hits = {} THEN <<>>
        ELSE LabelNumAt(s, CHOOSE p \in hits : \A q \in hits : p <= q, labels, qm)

\* FLEXIBLE_AREA_PATTERNS[0], [1], [2]
flexible_area_1(s) ==
    LabelNumSearch(s, <<<<"N", "R", "F">>, <<"N", "G", "F">>, <<"B", "G", "F">>, <<"F", "l", "ä", "c", "h", "e">>, <<"F", "l">>, <<"F", "L">>, <<"G", "F">>,
                        <<"W", "F">>, <<"N", "F">>>>, FALSE)
flexible_area_2(s) == NumM(s, EqColon(s, LitI(s, 1, <<"F">>)), DPC, TRUE)
flexible_area_3(s) == LabelNumSearch(s, <<<<"N", "R", "F">>, <<"N", "G", "F">>, <<"F", "l", "ä", "c", "h", "e">>>>, TRUE)

\* the first of FLEXIBLE_AREA_PATTERNS that finds a match in the line
flexible_area_match(s) ==
    IF flexible_area_1(s) # <<>> THEN flexible_area_1(s)
    ELSE IF flexible_area_2(s) # <<>> THEN flexible_area_2(s)
    ELSE flexible_area_3(s)

\* the plausible range 0.5 <= area <= 10000
AREA_MIN_TENTHS == 5
AREA_MAX == 10000
plausible_area(area) ==
    AREA_MIN_TENTHS * (Scale \div 10) <= area /\ area <= AREA_MAX * Scale

\* first pass, from line i: the list found_areas
RECURSIVE generic_areas(_, _)
generic_areas(lines, i) ==
    IF i > Len(lines) THEN <<>>
    ELSE LET line  == strip(lines[i])
             match == flexible_area_match(line)
             area  == parse_german_number(match[1])
         IN  IF match # <<>> /\ area # <<>> /\ plausible_area(area[1])
             THEN <<[line_idx |-> i, area |-> area[1], source_line |-> line]>>
                  \o generic_areas(lines, i + 1)
             ELSE generic_areas(lines, i + 1)

\* [A-Z0-9]+[\._] under re.IGNORECASE, from i: the position after it, or 0
AlnumSep(s, i) ==
    LET e == Run1(s, i, AZ \cup az \cup Digits)
    IN  IF e # 0 /\ e <= Len(s) /\ s[e] \in {".", "_"} THEN e + 1 ELSE 0

\* FLEXIBLE_ROOM_PATTERNS[0]: ^([A-Z]+\d*[\._][A-Z0-9]+[\._][A-Z0-9]+[\._][A-Z0-9]+)
flexible_room_1(s) ==
    LET a == Run1(s, 1, AZ \cup az)
        b == IF a = 0 THEN 0 ELSE Run(s, a, Digits)
        c == IF b # 0 /\ b <= Len(s) /\ s[b] \in {".", "_"} THEN b + 1 ELSE 0
    IN  Run1(s, AlnumSep(s, AlnumSep(s, c)), AZ \cup az \cup Digits)

\* FLEXIBLE_ROOM_PATTERNS[1]: ^(\d+_[a-z]\d+\.\d+)
flexible_room_2(s) ==
    LET b == Lit(s, Run1(s, 1, Digits), <<"_">>)
        c == IF b # 0 /\ b <= Len(s) /\ s[b] \in az THEN Run1(s, b + 1, Digits) ELSE 0
    IN  Run1(s, Lit(s, c, <<".">>), Digits)

\* [\._]\d{3} from i: the position after it, or 0
SepThreeDigits(s, i) ==
    IF i # 0 /\ i + 3 <= Len(s) /\ s[i] \in {".", "_"}
       /\ \A n \in 1..3 : s[i + n] \in Digits
    THEN i + 4 ELSE 0

\* FLEXIBLE_ROOM_PATTERNS[2]: ^([EOU]G\d*[\._]\d{3})  with re.IGNORECASE
flexible_room_3(s) ==
    IF Len(s) >= 2 /\ LowerChar(s[1]) \in {"e", "o", "u"} /\ LowerChar(s[2]) = "g"
    THEN SepThreeDigits(s, Run(s, 3, Digits)) ELSE 0

\* FLEXIBLE_ROOM_PATTERNS[3]: ^([A-Z][\._]\d{3})  with re.IGNORECASE
flexible_room_4(s) ==
    IF Len(s) >= 1 /\ s[1] \in AZ \cup az THEN SepThreeDigits(s, 2) ELSE 0

\* the first of FLEXIBLE_ROOM_PATTERNS that matches: <<group(1)>> or <<>>
flexible_room_match(s) ==
    LET e == IF flexible_room_1(s) # 0 THEN flexible_room_1(s)
             ELSE IF flexible_room_2(s) # 0 THEN flexible_room_2(s)
             ELSE IF flexible_room_3(s) # 0 THEN flexible_room_3(s)
             ELSE flexible_room_4(s)
    IN  IF e = 0 THEN <<>> ELSE <<SubSeq(s, 1, e - 1)>>

\* second pass, from line i: found_room_ids in insertion order
RECURSIVE generic_room_ids(_, _, _)
generic_room_ids(lines, i, found) ==
    IF i > Len(lines) THEN found
    ELSE LET match == flexible_room_match(strip(lines[i]))
         IN  IF match # <<>> /\ \A n \in 1..Len(found) : found[n].room_id # match[1]
             THEN generic_room_ids(lines, i + 1,
                      Append(found, [room_id |-> match[1], line_idx |-> i]))
             ELSE generic_room_ids(lines, i + 1, found)

\* twice the `distance` of the third pass
NEAR == 15
\* the distance with no preference for an area after the identifier
distance2_plain(area_line, room_line) ==
    IF area_line > room_line THEN 2 * (area_line - room_line)
    ELSE 2 * (room_line - area_line)
distance2(area_line, room_line) ==
    IF area_line > room_line THEN 2 * (area_line - room_line) - 1
    ELSE 2 * (room_line - area_line)

\* a choice among all areas, the used ones included
best_area_idx_any(found_areas, used_areas, room_line) ==
    LET ok == {a \in 1..Len(found_areas) :
                  distance2(found_areas[a].line_idx, room_line) < 2 * NEAR}
        d(a) == distance2(found_areas[a].line_idx, room_line)
    IN  IF ok = {} THEN 0
        ELSE CHOOSE a \in ok : \A b \in ok : d(a) < d(b) \/ (d(a) = d(b) /\ a <= b)

\* best_area_idx of one identifier: the index into found_areas, or 0
best_area_idx(found_areas, used_areas, room_line) ==
    LET ok == {a \in 1..Len(found_areas) :
                  /\ a \notin used_areas
                  /\ distance2(found_areas[a].line_idx, room_line) < 2 * NEAR}
        d(a) == distance2(found_areas[a].line_idx, room_line)
    IN  IF ok = {} THEN 0
        ELSE CHOOSE a \in ok : \A b \in ok : d(a) < d(b) \/ (d(a) = d(b) /\ a <= b)

\* the three tests a line must pass to be taken as a room name
generic_is_name(candidate) ==
    /\ candidate # <<>>
    /\ Len(candidate) > 1
    /\ ~(\A n \in 1..Len(candidate) : candidate[n] \in DPC \cup Spaces)
    /\ ~(\E l \in {<<"N", "R", "F">>, <<"N", "G", "F">>, <<"F">>, <<"U">>, <<"L", "H">>, <<"B", "A">>, <<"B">>, <<"W">>, <<"D">>,
                   <<"O", "K">>, <<"U", "K">>, <<"U", "K", "R", "D">>, <<"O", "K", "F", "F">>} :
            /\ LitI(candidate, 1, l) # 0
            /\ LitI(candidate, 1, l) <= Len(candidate)
            /\ candidate[LitI(candidate, 1, l)] \in Spaces \cup {":", "="})
    /\ ~(LET b == Run1(candidate, 1, DPC)
             e == Lit(candidate, IF b = 0 THEN 0 ELSE Run(candidate, b, Spaces), <<"m">>)
         IN  e # 0 /\ (e = Len(candidate) + 1
                       \/ (e = Len(candidate) /\ candidate[e] \in {"²", "2"})))

\* for j in range(start_search, min(end_search, start_search + 5)), from line j
NAME_SEARCH == 5
RECURSIVE generic_room_name(_, _, _)
generic_room_name(lines, j, end) ==
    IF j >= end THEN <<>>
    ELSE IF j <= Len(lines) /\ generic_is_name(strip(lines[j])) THEN <<strip(lines[j])>>
    ELSE generic_room_name(lines, j + 1, end)

generic_room(lines, id, best_area, page_idx) ==
    LET room_name == generic_room_name(lines, id.line_idx + 1,
                         Min(best_area.line_idx, id.line_idx + 1 + NAME_SEARCH))
    IN  ExtractedRoom(
            id.room_id, OrUnknown(room_name), best_area.area, best_area.area, Scale,
            page_idx, best_area.source_line,
            categorize_room(IF room_name = <<>> THEN <<>> ELSE room_name[1]),
            <<>>, <<>>, "None", <<"g", "e", "n", "e", "r", "i", "c">>)

\* third pass, from the n-th identifier, with used_areas so far
RECURSIVE generic_assign(_, _, _, _, _, _)
generic_assign(lines, page_idx, found_areas, found_room_ids, n, used_areas) ==
    IF n > Len(found_room_ids) THEN <<>>
    ELSE LET best == best_area_idx(found_areas, used_areas, found_room_ids[n].line_idx)
         IN  IF best = 0
             THEN generic_assign(lines, page_idx, found_areas, found_room_ids,
                                 n + 1, used_areas)
             ELSE <<generic_room(lines, found_room_ids[n], found_areas[best], page_idx)>>
                  \o generic_assign(lines, page_idx, found_areas, found_room_ids,
                                    n + 1, used_areas \cup {best})

extract_generic(lines, page_idx) ==
    Returned(generic_assign(lines, page_idx, generic_areas(lines, 1),
                            generic_room_ids(lines, 1, <<>>), 1, {}))

(***************************************************************************)
(* detect_blueprint_style                                                  *)
(***************************************************************************)
\* re.search(pattern, text): some position of text starts a match
Search(text, MatchAt(_, _)) == \E p \in 1..Len(text) : MatchAt(text, p)

\* \bF:\s*[\d,]+
f_colon_at(s, p) == WordBoundary(s, p) /\ Run1(s, Ws(s, Lit(s, p, <<"F", ":">>)), DC) # 0
\* \bF=\s*[\d.,]+
f_equals_at(s, p) == WordBoundary(s, p) /\ Run1(s, Ws(s, Lit(s, p, <<"F", "=">>)), DPC) # 0
\* \bNRF:\s*[\d,]+  with re.IGNORECASE
nrf_at(s, p) == WordBoundary(s, p) /\ Run1(s, Ws(s, LitI(s, p, <<"N", "R", "F", ":">>)), DC) # 0
\* \bNGF:\s*[\d.,]+  with re.IGNORECASE
ngf_at(s, p) == WordBoundary(s, p) /\ Run1(s, Ws(s, LitI(s, p, <<"N", "G", "F", ":">>)), DPC) # 0

\* e is the position after a match and \b holds there
EndsAtBoundary(s, e) == e # 0 /\ WordBoundary(s, e)

\* \bR\d+\.E\d+\.\d+\.\d+\b
r_full_at(s, p) ==
    LET a == Run1(s, Lit(s, p, <<"R">>), Digits)
        b == Run1(s, Lit(s, a, <<".", "E">>), Digits)
        c == Run1(s, Lit(s, b, <<".">>), Digits)
    IN  WordBoundary(s, p) /\ EndsAtBoundary(s, Run1(s, Lit(s, c, <<".">>), Digits))
\* \bR\d+[A-Z]\b
r_simple_at(s, p) ==
    LET a == Run1(s, Lit(s, p, <<"R">>), Digits)
    IN  /\ WordBoundary(s, p)
        /\ a # 0 /\ a <= Len(s) /\ s[a] \in AZ
        /\ WordBoundary(s, a + 1)
\* \bE\.[A-Z0-9]+\.\d+\.\d+\b
e_apartment_at(s, p) ==
    LET a == Run1(s, Lit(s, p, <<"E", ".">>), AZ \cup Digits)
        b == Run1(s, Lit(s, a, <<".">>), Digits)
    IN  WordBoundary(s, p) /\ EndsAtBoundary(s, Run1(s, Lit(s, b, <<".">>), Digits))
\* \bB\.\d+\.\d+\.\d+\b
b_pattern_at(s, p) ==
    LET a == Run1(s, Lit(s, p, <<"B", ".">>), Digits)
        b == Run1(s, Lit(s, a, <<".">>), Digits)
    IN  WordBoundary(s, p) /\ EndsAtBoundary(s, Run1(s, Lit(s, b, <<".">>), Digits))
\* \b\d+_[a-z]\d+\.\d+\b
grid_pattern_at(s, p) ==
    LET b == Lit(s, Run1(s, p, Digits), <<"_">>)
        c == IF b # 0 /\ b <= Len(s) /\ s[b] \in az THEN Run1(s, b + 1, Digits) ELSE 0
    IN  WordBoundary(s, p) /\ EndsAtBoundary(s, Run1(s, Lit(s, c, <<".">>), Digits))
\* \b(BA:|B:|W:|D:)\s*\d
haardtring_codes_at(s, p) ==
    LET e == Ws(s, AnyLit(s, p, <<<<"B", "A", ":">>, <<"B", ":">>, <<"W", ":">>, <<"D", ":">>>>, FALSE))
    IN  WordBoundary(s, p) /\ e # 0 /\ e <= Len(s) /\ s[e] \in Digits

\* the boolean probes of a text
Probes(text) ==
    [has_f_colon   |-> Search(text, f_colon_at),
     has_f_equals  |-> Search(text, f_equals_at),
     has_nrf       |-> Search(text, nrf_at),
     has_ngf       |-> Search(text, ngf_at),
     has_r_full    |-> Search(text, r_full_at),
     has_r_simple  |-> Search(text, r_simple_at),
     has_e_apartment |-> Search(text, e_apartment_at),
     has_b_pattern |-> Search(text, b_pattern_at),
     has_grid_pattern |-> Search(text, grid_pattern_at),
     has_haardtring_codes |-> Search(text, haardtring_codes_at)]

\* has_haardtring_rooms
has_haardtring_rooms(b) == b.has_r_full \/ b.has_r_simple \/ b.has_e_apartment

\* the decision tree with the NGF: label tested before the LeiQ labels
decide_style_ngf_first(b) ==
    IF b.has_f_colon /\ has_haardtring_rooms(b) THEN "haardtring"
    ELSE IF b.has_f_colon /\ b.has_haardtring_codes THEN "haardtring"
    ELSE IF b.has_ngf THEN "omniturm"
    ELSE IF b.has_nrf \/ b.has_f_equals THEN "leiq"
    ELSE IF b.has_f_colon THEN "haardtring"
    ELSE "unknown"
\* the decision tree over the probes
decide_style(b) ==
    IF b.has_f_colon /\ has_haardtring_rooms(b) THEN "haardtring"
    ELSE IF b.has_f_colon /\ b.has_haardtring_codes THEN "haardtring"
    ELSE IF b.has_nrf /\ b.has_b_pattern THEN "leiq"
    ELSE IF b.has_f_equals /\ b.has_b_pattern THEN "leiq"
    ELSE IF b.has_ngf /\ (b.has_grid_pattern \/ b.has_b_pattern) THEN "omniturm"
    ELSE IF b.has_ngf THEN "omniturm"
    ELSE IF b.has_nrf \/ b.has_f_equals THEN "leiq"
    ELSE IF b.has_f_colon THEN "haardtring"
    ELSE "unknown"

detect_blueprint_style(text) == decide_style(Probes(text))

(***************************************************************************)
(* The text of a page and of a document.                                   *)
(***************************************************************************)
\* page.get_text(): the text whose split('\n') is the page's lines
RECURSIVE get_text(_)
get_text(lines) ==
    IF lines = <<>> THEN <<>>
    ELSE IF Len(lines) = 1 THEN lines[1]
    ELSE lines[1] \o <<"\n">> \o get_text(Tail(lines))

\* full_text: the page texts concatenated
RECURSIVE full_text(_)
full_text(d) == IF d = <<>> THEN <<>> ELSE get_text(Head(d)) \o full_text(Tail(d))

(***************************************************************************)
(* BlueprintStyle(value): <<member>>, or <<>> for the ValueError           *)
(***************************************************************************)
BlueprintStyle(value) ==
    IF value = <<"h", "a", "a", "r", "d", "t", "r", "i", "n", "g">> THEN <<"haardtring">>
    ELSE IF value = <<"l", "e", "i", "q">> THEN <<"leiq">>
    ELSE IF value = <<"o", "m", "n", "i", "t", "u", "r", "m">> THEN <<"omniturm">>
    ELSE IF value = <<"u", "n", "k", "n", "o", "w", "n">> THEN <<"unknown">>
    ELSE <<>>

\* the dispatch table's .get(detected_style): the extractor, or "generic"
\* after `if not extract_fn`
\* a dispatch that falls back to the first style extractor
extract_fn_or_first(detected_style) ==
    IF detected_style \in {"haardtring", "leiq", "omniturm"} THEN detected_style
    ELSE "haardtring"
extract_fn_of(detected_style) ==
    IF detected_style \in {"haardtring", "leiq", "omniturm"} THEN detected_style
    ELSE "generic"

\* the call extract_fn(lines, page_idx)
call_extractor(name, lines, page_idx, tieUp) ==
    IF name = "haardtring" THEN extract_haardtring(lines, page_idx, tieUp)
    ELSE IF name = "leiq" THEN extract_leiq(lines, page_idx)
    ELSE IF name = "omniturm" THEN extract_omniturm(lines, page_idx)
    ELSE extract_generic(lines, page_idx)

\* the fallback list of extract_room_areas, in its order
\* the fallback list with its first two entries exchanged
ALT_STYLES_LEIQ_FIRST == <<"leiq", "haardtring", "omniturm">>
ALT_STYLES == <<"haardtring", "leiq", "omniturm">>

\* page_indices
page_indices(pgs, d) ==
    IF pgs = <<>> THEN [n \in 1..Len(d) |-> n - 1] ELSE pgs[1]

(***************************************************************************)
(* round(x, 2) of a sum of floats, x = num / Scale; a decimal tie goes     *)
(* either way, as for RoundHalf2.                                          *)
(***************************************************************************)
\* the sum cut to two decimal digits instead of rounded
Floor2(num, tieUp) == (num \div (Scale \div 100)) * (Scale \div 100)
Round2(num, tieUp) ==
    LET h == Scale \div 100
        n == IF 2 * (num % h) > h \/ (2 * (num % h) = h /\ tieUp)
             THEN num \div h + 1 ELSE num \div h
    IN  n * h

RECURSIVE SumOf(_, _)
SumOf(rs, field) ==
    IF rs = <<>> THEN 0
    ELSE (IF field = "area_m2" THEN Head(rs).area_m2 ELSE Head(rs).counted_m2)
         + SumOf(Tail(rs), field)

\* every room taken for every category
AnyCategory(rs, cat) == rs
\* the rooms of one category, in order
RECURSIVE OfCategory(_, _)
OfCategory(rs, cat) ==
    IF rs = <<>> THEN <<>>
    ELSE (IF Head(rs).category = cat THEN <<Head(rs)>> ELSE <<>>)
         \o OfCategory(Tail(rs), cat)

Categories(rs) == {rs[n].category : n \in 1..Len(rs)}

\* the places where the result is rounded
RoundSites == {"total_area", "total_counted", "office", "residential",
               "circulation", "stairs", "elevators", "shafts", "technical",
               "sanitary", "storage", "outdoor", "other"}

\* a result that reports the style of the extractor that produced its first
\* room
ExtractionResultOfProducer(rs, page_count, blueprint_style, method, ws, tie) ==
    [rooms |-> rs,
     total_area_m2 |-> Round2(SumOf(rs, "area_m2"), tie["total_area"]),
     total_counted_m2 |-> Round2(SumOf(rs, "counted_m2"), tie["total_counted"]),
     room_count |-> Len(rs),
     page_count |-> page_count,
     blueprint_style |->
        IF rs = <<>> THEN blueprint_style
        ELSE IF rs[1].extraction_pattern = <<"g", "e", "n", "e", "r", "i", "c">> THEN "unknown"
        ELSE IF rs[1].extraction_pattern = <<"F", ":">> THEN "haardtring"
        ELSE IF rs[1].extraction_pattern = <<"N", "G", "F", ":">> THEN "omniturm"
        ELSE "leiq",
     extraction_method |-> method,
     warnings |-> ws,
     totals_by_category |->
        [c \in Categories(rs) |->
            Round2(SumOf(OfCategory(rs, c), "counted_m2"), tie[c])]]

\* the ExtractionResult of extract_room_areas; tie[site] is the direction
\* of a decimal tie at that rounding
ExtractionResult(rs, page_count, blueprint_style, method, ws, tie) ==
    [rooms |-> rs,
     total_area_m2 |-> Round2(SumOf(rs, "area_m2"), tie["total_area"]),
     total_counted_m2 |-> Round2(SumOf(rs, "counted_m2"), tie["total_counted"]),
     room_count |-> Len(rs),
     page_count |-> page_count,
     blueprint_style |-> blueprint_style,
     extraction_method |-> method,
     warnings |-> ws,
     totals_by_category |->
        [c \in Categories(rs) |->
            Round2(SumOf(OfCategory(rs, c), "counted_m2"), tie[c])]]

(***************************************************************************)
(* extract_room_areas_pdfplumber: the rooms of one page's text             *)
(***************************************************************************)
\* NRF\s*:\s*(\d+[,.]?\d*)\s*m[²2]?  with re.IGNORECASE, tried at position p:
\* [from, to) of group(1) and the position after the match, or end = 0
plumber_match_at(s, p) ==
    LET c  == Ws(s, Lit(s, Ws(s, LitI(s, p, <<"N", "R", "F">>)), <<":">>))
        d1 == Run1(s, c, Digits)
        d2 == IF d1 # 0 /\ d1 <= Len(s) /\ s[d1] \in {",", "."} THEN d1 + 1 ELSE d1
        d3 == IF d2 = 0 THEN 0 ELSE Run(s, d2, Digits)
        m  == LitI(s, Ws(s, d3), <<"m">>)
        e  == IF m # 0 /\ m <= Len(s) /\ s[m] \in {"²", "2"} THEN m + 1 ELSE m
    IN  [from |-> c, to |-> d3, end |-> e]

\* f"room_{room_counter:03d}"
room_id(n) ==
    <<"r", "o", "o", "m", "_">>
    \o (IF n < 10 THEN <<"0", "0">> ELSE IF n < 100 THEN <<"0">> ELSE <<>>)
    \o NatStr(n)

\* for match in area_pattern.finditer(text), from position p
RECURSIVE plumber_rooms(_, _, _, _)
plumber_rooms(text, p, page_idx, counter) ==
    IF p > Len(text) THEN <<>>
    ELSE LET m == plumber_match_at(text, p)
             area == float(replace(SubSeq(text, m.from, m.to - 1), ",", <<".">>))
         IN  IF m.end = 0 THEN plumber_rooms(text, p + 1, page_idx, counter)
             ELSE IF area = <<>> THEN plumber_rooms(text, m.end, page_idx, counter + 1)
             ELSE <<ExtractedRoom(room_id(counter + 1), Unknown, area[1], area[1], Scale,
                                  page_idx, SubSeq(text, p, m.end - 1), "other",
                                  <<>>, <<>>, "None", <<"N", "R", "F", ":">>)>>
                  \o plumber_rooms(text, m.end, page_idx, counter + 1)

\* the number of matches, each of which advances room_counter
RECURSIVE plumber_count(_, _)
plumber_count(text, p) ==
    IF p > Len(text) THEN 0
    ELSE IF plumber_match_at(text, p).end = 0 THEN plumber_count(text, p + 1)
    ELSE 1 + plumber_count(text, plumber_match_at(text, p).end)

(***************************************************************************)
(* How a call ends.                                                        *)
(***************************************************************************)
Outcome(kind, code, detail) == [kind |-> kind, code |-> code, detail |-> detail]
NoOutcome == Outcome("none", 0, "")

\* an exception other than HTTPException leaving the body of the call: the
\* HTTP handler turns it into a 500, extract_to_dict lets it through
Propagate(kind, detail) ==
    IF entry = "http" THEN Outcome("HTTPException", 500, detail)
    ELSE Outcome(kind, 0, detail)

E_PARSE   == "could not convert string to float"
E_OPEN    == "Failed to open PDF from bytes"
E_NOINPUT == "Either pdf_path or pdf_content must be provided"
E_FITZ    == "PyMuPDF is required"
E_PLUMBER == "pdfplumber not installed"
E_STYLE   == "is not a valid BlueprintStyle"
E_INDEX   == "page not in document"

Call(page, extractor, role, res) ==
    [page |-> page, extractor |-> extractor, role |-> role,
     raised |-> res.raised, count |-> Len(res.rooms)]

Warning(kind, page, name) == [kind |-> kind, page |-> page, style |-> name]

\* str.endswith
EndsWith(s, suffix) ==
    Len(s) >= Len(suffix) /\ SubSeq(s, Len(s) - Len(suffix) + 1, Len(s)) = suffix

\* page_idx >= len(doc)
out_of_range(page_idx, d) == page_idx >= Len(d)

Inputs == <<entry, filename, fitz, plumber, content, hint, doc, pages, arg>>

\* the call ends with outcome o and nothing else changes
EndWith(o) ==
    /\ pc' = "done"
    /\ outcome' = o
    /\ UNCHANGED <<Inputs, style_enum, handle, style, fn, k, page_rooms, alt,
                   room_counter, rooms, warnings, calls, result>>

(***************************************************************************)
(* main.extract_areas up to the call of extract_room_areas                 *)
(***************************************************************************)
HttpRequest ==
    /\ pc = "request"
    /\ entry = "http"
    /\ IF ~EndsWith(lower(filename), <<".", "p", "d", "f">>)
       THEN EndWith(Outcome("HTTPException", 400, "Only PDF files are supported"))
       ELSE IF TruthyStr(hint) /\ BlueprintStyle(lower(hint[1])) = <<>>
       THEN EndWith(Outcome("HTTPException", 400, "Invalid style"))
       ELSE /\ style_enum' = IF TruthyStr(hint) THEN BlueprintStyle(lower(hint[1]))
                             ELSE <<>>
            /\ pc' = "extract"
            /\ UNCHANGED <<Inputs, handle, style, fn, k, page_rooms, alt,
                           room_counter, rooms, warnings, calls, outcome, result>>

(***************************************************************************)
(* extract_to_dict up to the call of extract_room_areas                    *)
(***************************************************************************)
DictRequest ==
    /\ pc = "request"
    /\ entry = "dict"
    /\ IF TruthyStr(hint) /\ BlueprintStyle(hint[1]) = <<>>
       THEN EndWith(Outcome("ValueError", 0, E_STYLE))
       ELSE /\ style_enum' = IF TruthyStr(hint) THEN BlueprintStyle(hint[1]) ELSE <<>>
            /\ pc' = "extract"
            /\ UNCHANGED <<Inputs, handle, style, fn, k, page_rooms, alt,
                           room_counter, rooms, warnings, calls, outcome, result>>

(***************************************************************************)
(* extract_room_areas                                                      *)
(***************************************************************************)
\* the FITZ_AVAILABLE test and fitz.open
OpenDocument ==
    /\ pc = "extract"
    /\ IF ~fitz
       THEN IF entry = "http"
            THEN /\ pc' = "plumber"      \* except ImportError: the fallback
                 /\ UNCHANGED <<Inputs, style_enum, handle, style, fn, k, page_rooms,
                                alt, room_counter, rooms, warnings, calls, outcome,
                                result>>
            ELSE EndWith(Outcome("ImportError", 0, E_FITZ))
       ELSE IF content = "empty" THEN EndWith(Propagate("ValueError", E_NOINPUT))
       ELSE IF content = "malformed" THEN EndWith(Propagate("ValueError", E_OPEN))
       ELSE /\ handle' = "open"
            /\ pc' = "detect"
            /\ UNCHANGED <<Inputs, style_enum, style, fn, k, page_rooms, alt,
                           room_counter, rooms, warnings, calls, outcome, result>>

\* full_text, detected_style, extract_fn and the warning for an unknown style
DetectStyle ==
    /\ pc = "detect"
    /\ style' = IF style_enum # <<>> THEN style_enum[1]
                ELSE detect_blueprint_style(full_text(doc))
    /\ fn' = extract_fn_of(style')
    /\ warnings' = IF fn' = "generic"
                   THEN Append(warnings, Warning("unknown_style", 0, ""))
                   ELSE warnings
    /\ rooms' = <<>>
    /\ k' = 1
    /\ pc' = "loop"
    /\ UNCHANGED <<Inputs, style_enum, handle, page_rooms, alt, room_counter, calls,
                   outcome, result>>

\* the loop body for an index beyond the document
SkipPage ==
    /\ pc = "loop"
    /\ k <= Len(page_indices(pages, doc))
    /\ out_of_range(page_indices(pages, doc)[k], doc)
    /\ warnings' = Append(warnings,
                          Warning("page_missing", page_indices(pages, doc)[k], ""))
    /\ k' = k + 1
    /\ UNCHANGED <<Inputs, pc, style_enum, handle, style, fn, page_rooms, alt,
                   room_counter, rooms, calls, outcome, result>>

\* an extractor raised: the exception leaves extract_room_areas
ExtractorRaised(call) ==
    /\ calls' = Append(calls, call)
    /\ pc' = "done"
    /\ outcome' = Propagate("ValueError", E_PARSE)
    /\ UNCHANGED <<Inputs, style_enum, handle, style, fn, k, page_rooms, alt,
                   room_counter, rooms, warnings, result>>

\* page_rooms = extract_fn(lines, page_idx); rooms.extend(page_rooms)
RunChosen ==
    /\ pc = "loop"
    /\ k <= Len(page_indices(pages, doc))
    /\ ~out_of_range(page_indices(pages, doc)[k], doc)
    /\ LET page_idx == page_indices(pages, doc)[k]
       IN  IF page_idx + 1 > Len(doc)
           THEN EndWith(Propagate("IndexError", E_INDEX))
           ELSE \E tieUp \in BOOLEAN :
                \E res \in {call_extractor(fn, doc[page_idx + 1], page_idx, tieUp)} :
                    IF res.raised
                    THEN ExtractorRaised(Call(page_idx, fn, "chosen", res))
                    ELSE /\ calls' = Append(calls, Call(page_idx, fn, "chosen", res))
                         /\ page_rooms' = res.rooms
                         /\ rooms' = rooms \o res.rooms
                         /\ IF res.rooms = <<>>
                            THEN pc' = "fallback" /\ alt' = 1 /\ k' = k
                            ELSE pc' = "loop" /\ alt' = alt /\ k' = k + 1
                         /\ UNCHANGED <<Inputs, style_enum, handle, style, fn,
                                        room_counter, warnings, outcome, result>>

\* one round of `for alt_style, alt_fn in [...]`
TryAlternative ==
    /\ pc = "fallback"
    /\ LET page_idx == page_indices(pages, doc)[k]
           alt_style == ALT_STYLES[alt]
           onward == IF alt = Len(ALT_STYLES) THEN "generic" ELSE "fallback"
       IN  IF alt_style = fn
           THEN /\ alt' = alt + 1
                /\ pc' = onward
                /\ UNCHANGED <<Inputs, style_enum, handle, style, fn, k, page_rooms,
                               room_counter, rooms, warnings, calls, outcome, result>>
           ELSE \E tieUp \in BOOLEAN :
                \E res \in {call_extractor(alt_style, doc[page_idx + 1], page_idx, tieUp)} :
                    IF res.raised
                    THEN ExtractorRaised(Call(page_idx, alt_style, "alternative", res))
                    ELSE /\ calls' = Append(calls,
                                        Call(page_idx, alt_style, "alternative", res))
                         /\ alt' = alt + 1
                         /\ IF res.rooms # <<>>
                            THEN /\ rooms' = rooms \o res.rooms
                                 /\ warnings' = Append(warnings,
                                        Warning("fallback", page_idx, alt_style))
                                 /\ pc' = "generic"          \* break
                            ELSE /\ pc' = onward
                                 /\ UNCHANGED <<rooms, warnings>>
                         /\ UNCHANGED <<Inputs, style_enum, handle, style, fn, k,
                                        page_rooms, room_counter, outcome, result>>

\* `if not page_rooms and extract_fn != extract_generic:` after the loop
TryGeneric ==
    /\ pc = "generic"
    /\ \E page_idx \in {page_indices(pages, doc)[k]} :
       \E res \in {extract_generic(doc[page_idx + 1], page_idx)} :
           IF page_rooms = <<>> /\ fn # "generic"
           THEN /\ calls' = Append(calls, Call(page_idx, "generic", "generic", res))
                /\ IF res.rooms # <<>>
                   THEN /\ rooms' = rooms \o res.rooms
                        /\ warnings' = Append(warnings, Warning("generic", page_idx, ""))
                   ELSE UNCHANGED <<rooms, warnings>>
           ELSE UNCHANGED <<calls, rooms, warnings>>
    /\ k' = k + 1
    /\ pc' = "loop"
    /\ UNCHANGED <<Inputs, style_enum, handle, style, fn, page_rooms, alt,
                   room_counter, outcome, result>>

\* the sites whose sum lies exactly between two hundredths
TieSites(rs) ==
    LET h == Scale \div 100
        tie(v) == 2 * (v % h) = h
    IN  {s \in RoundSites :
            IF s = "total_area" THEN tie(SumOf(rs, "area_m2"))
            ELSE IF s = "total_counted" THEN tie(SumOf(rs, "counted_m2"))
            ELSE tie(SumOf(OfCategory(rs, s), "counted_m2"))}

\* page_count, doc.close(), the totals and the return
Finish ==
    /\ pc = "loop"
    /\ k > Len(page_indices(pages, doc))
    /\ handle' = "closed"
    /\ \E up \in SUBSET TieSites(rooms) :
          result' = <<ExtractionResult(rooms, Len(doc), style, "unified_extraction",
                                       warnings, [s \in RoundSites |-> s \in up])>>
    /\ outcome' = Outcome("returned", IF entry = "http" THEN 200 ELSE 0, "")
    /\ pc' = "done"
    /\ UNCHANGED <<Inputs, style_enum, style, fn, k, page_rooms, alt, room_counter,
                   rooms, warnings, calls>>

(***************************************************************************)
(* extract_room_areas_pdfplumber, called by main.extract_areas             *)
(***************************************************************************)
PlumberStart ==
    /\ pc = "plumber"
    /\ IF ~plumber THEN EndWith(Propagate("ImportError", E_PLUMBER))
       ELSE IF content = "empty" THEN EndWith(Propagate("ValueError", E_NOINPUT))
       ELSE IF content = "malformed" THEN EndWith(Propagate("PDFSyntaxError", E_OPEN))
       ELSE /\ warnings' = <<Warning("pdfplumber", 0, "")>>
            /\ rooms' = <<>>
            /\ handle' = "open"
            /\ room_counter' = 0
            /\ k' = 1
            /\ pc' = "plumber_loop"
            /\ UNCHANGED <<Inputs, style_enum, style, fn, page_rooms, alt, calls,
                           outcome, result>>

\* the loop body with room_counter started afresh on every page
PlumberPageOwnCounter ==
    /\ pc = "plumber_loop"
    /\ k <= Len(page_indices(<<>>, doc))
    /\ LET page_idx == page_indices(<<>>, doc)[k]
           text == get_text(doc[page_idx + 1])
       IN  /\ rooms' = rooms \o plumber_rooms(text, 1, page_idx, 0)
           /\ room_counter' = plumber_count(text, 1)
    /\ k' = k + 1
    /\ UNCHANGED <<Inputs, pc, style_enum, handle, style, fn, page_rooms, alt,
                   warnings, calls, outcome, result>>
PlumberPage ==
    /\ pc = "plumber_loop"
    /\ k <= Len(page_indices(<<>>, doc))
    /\ LET page_idx == page_indices(<<>>, doc)[k]
           text == get_text(doc[page_idx + 1])
       IN  IF out_of_range(page_idx, doc)
           THEN UNCHANGED <<rooms, room_counter>>
           ELSE /\ rooms' = rooms \o plumber_rooms(text, 1, page_idx, room_counter)
                /\ room_counter' = room_counter + plumber_count(text, 1)
    /\ k' = k + 1
    /\ UNCHANGED <<Inputs, pc, style_enum, handle, style, fn, page_rooms, alt,
                   warnings, calls, outcome, result>>

\* the result of the degraded path: totals_by_category keeps its default
PlumberResult(rs, page_count, ws, tieUp) ==
    [rooms |-> rs,
     total_area_m2 |-> Round2(SumOf(rs, "area_m2"), tieUp),
     total_counted_m2 |-> Round2(SumOf(rs, "area_m2"), tieUp),
     room_count |-> Len(rs),
     page_count |-> page_count,
     blueprint_style |-> "unknown",
     extraction_method |-> "pdfplumber_fallback",
     warnings |-> ws,
     totals_by_category |-> <<>>]

PlumberFinish ==
    /\ pc = "plumber_loop"
    /\ k > Len(page_indices(<<>>, doc))
    /\ handle' = "closed"
    /\ \E tieUp \in {t \in BOOLEAN : t => "total_area" \in TieSites(rooms)} :
          result' = <<PlumberResult(rooms, Len(doc), warnings, tieUp)>>
    /\ outcome' = Outcome("returned", 200, "")
    /\ pc' = "done"
    /\ UNCHANGED <<Inputs, style_enum, style, fn, k, page_rooms, alt, room_counter,
                   rooms, warnings, calls>>

(***************************************************************************)
(* The extractors applied on their own to one page.                        *)
(***************************************************************************)
FnDone(name, res) ==
    /\ calls' = <<Call(0, name, "fn", res)>>
    /\ rooms' = res.rooms
    /\ outcome' = IF res.raised THEN Outcome("ValueError", 0, E_PARSE)
                  ELSE Outcome("returned", 0, "")
    /\ pc' = "done"
    /\ UNCHANGED <<Inputs, style_enum, handle, style, fn, k, page_rooms, alt,
                   room_counter, warnings, result>>

FnHaardtring ==
    /\ pc = "fn"
    /\ \E tieUp \in BOOLEAN : FnDone("haardtring", extract_haardtring(doc[1], 0, tieUp))

FnLeiq == pc = "fn" /\ FnDone("leiq", extract_leiq(doc[1], 0))

FnOmniturm == pc = "fn" /\ FnDone("omniturm", extract_omniturm(doc[1], 0))

FnGeneric == pc = "fn" /\ FnDone("generic", extract_generic(doc[1], 0))

FnPdfplumber ==
    pc = "fn" /\ FnDone("pdfplumber", Returned(plumber_rooms(get_text(doc[1]), 1, 0, 0)))

(***************************************************************************)
(* Inputs.                                                                 *)
(***************************************************************************)
\* the lines the pages of the extractor-level specification are made of
LineAlphabet ==
    {<<"R", "1", "A">>, <<"B", "a", "l", "k", "o", "n">>, <<"F", ":", " ", "9", ",", "1", "3", "5", " ", "m", "2">>, <<"F", ":">>, <<"1", "2", ",", "5", " ", "m", "2">>,
     <<"B", ".", "0", "0", ".", "2", ".", "0", "0", "2">>, <<"N", "R", "F", ":", " ", "3", ",", "4", "5", " ", "m", "2">>, <<"0", "3", "_", "b", "6", ".", "1", "2">>, <<"N", "G", "F", ":", " ", "1", ".", "0", "7", "0", ",", "5", "5", " ", "m", "2">>}

FnPages == UNION {[1..n -> LineAlphabet] : n \in 0..MaxLines}

\* an anchor with its area label on the last line of the lookahead, and on
\* the line after it
Blank(n) == [i \in 1..n |-> <<>>]
PageNear == <<<<"R", "1", "A">>>> \o Blank(LOOKAHEAD - 2) \o <<<<"F", ":", " ", "1", "2", ",", "5", " ", "m", "2">>>>
PageFar  == <<<<"R", "1", "A">>>> \o Blank(LOOKAHEAD - 1) \o <<<<"F", ":", " ", "1", "2", ",", "5", " ", "m", "2">>>>
LongPages == {PageNear, PageFar}

\* pages on which a second room identifier stands between an identifier and
\* the area value that follows
PageBleed == <<<<"R", "1", "A">>, <<"R", "2", "B", " ", "B", "a", "d">>, <<"F", ":", " ", "9", ",", "1", "3", "5", " ", "m", "2">>>>
PageShaft == <<<<"0", "3", "_", "b", "6", ".", "1", "2">>, <<"S", "c", "h", "a", "c", "h", "t", " ", "1">>, <<"0", "4", "_", "b", "6", ".", "1", "3">>, <<"1", "2", ",", "5", " ", "m", "2">>>>
AnchorPages == {PageBleed, PageShaft}

\* pages with an override token: of value zero, after a split area label,
\* and after the area of a room named as outdoor space
PageZeroOverride  == <<<<"R", "1", "A">>, <<"F", ":", " ", "9", ",", "1", "3", "5", " ", "m", "2">>, <<"5", "0", "%", ":", " ", "0", ",", "0", "0", " ", "m", "2">>>>
PageSplitOverride == <<<<"R", "1", "A">>, <<"F", ":">>, <<"1", "2", ",", "5", " ", "m", "2">>, <<"5", "0", "%", ":", " ", "5", ",", "0", "0", " ", "m", "2">>>>
PageNamedOverride == <<<<"R", "1", "A">>, <<"B", "a", "l", "k", "o", "n">>, <<"F", ":", " ", "9", ",", "1", "3", "5", " ", "m", "2">>, <<"5", "0", "%", ":", " ", "5", ",", "0", "0", " ", "m", "2">>>>
PageInlineOverride == <<<<"R", "1", "A">>, <<"F", ":", " ", "9", ",", "1", "3", "5", " ", "m", "2">>, <<"5", "0", "%", ":", " ", "5", ",", "0", "0", " ", "m", "2">>>>
OverridePages == {PageZeroOverride, PageSplitOverride, PageNamedOverride, PageInlineOverride}

\* an anchor with a bare area label on the last line of its lookahead and
\* the lines that belong to the label after it
SplitEdge(anchor, tail) == <<anchor>> \o Blank(LOOKAHEAD - 2) \o tail
EdgePages ==
    {SplitEdge(<<"R", "1", "A">>, <<<<"F", ":">>, <<"1", "2", ",", "5", " ", "m", "2">>, <<"5", "0", "%", ":", " ", "5", ",", "0", "0", " ", "m", "2">>>>),
     SplitEdge(<<"B", ".", "0", "0", ".", "2", ".", "0", "0", "2">>, <<<<"N", "R", "F", ":">>, <<"1", "2", ",", "5", " ", "m", "2">>>>),
     SplitEdge(<<"0", "3", "_", "b", "6", ".", "1", "2">>, <<<<"N", "G", "F", ":">>, <<"1", "2", ",", "5", " ", "m", "2">>>>)}

\* a page on which the same anchor line stands twice, each time with an area
PageRevisit == <<<<"0", "3", "_", "b", "6", ".", "1", "2">>, <<"N", "G", "F", ":", " ", "1", ".", "0", "7", "0", ",", "5", "5", " ", "m", "2">>, <<"0", "3", "_", "b", "6", ".", "1", "2">>, <<"N", "G", "F", ":", " ", "2", ",", "5", "0", "6", " ", "m", "2">>>>

\* an identifier with its area n lines after it, and n lines before it
AreaAfter(n)  == <<<<"B", ".", "0", "0", ".", "2", ".", "0", "0", "2">>>> \o Blank(n - 1) \o <<<<"N", "R", "F", ":", " ", "3", ",", "4", "5", " ", "m", "2">>>>
AreaBefore(n) == <<<<"N", "R", "F", ":", " ", "3", ",", "4", "5", " ", "m", "2">>>> \o Blank(n - 1) \o <<<<"B", ".", "0", "0", ".", "2", ".", "0", "0", "2">>>>
\* an identifier with an area one line before it and an area two lines after
PageNearBefore == <<<<"N", "R", "F", ":", " ", "3", ",", "4", "5", " ", "m", "2">>, <<"B", ".", "0", "0", ".", "2", ".", "0", "0", "2">>, <<"B", "a", "l", "k", "o", "n">>, <<"F", ":", " ", "9", ",", "1", "3", "5", " ", "m", "2">>>>
DistancePages == {AreaAfter(NEAR), AreaAfter(NEAR + 1), AreaBefore(NEAR - 1), AreaBefore(NEAR), PageNearBefore}

\* a room name on the last line searched for it, and on the line after that
LateName(n) == <<<<"E", "G", ".", "0", "0", "1">>>> \o Blank(n) \o <<<<"L", "a", "g", "e", "r">>, <<"F", "l", "ä", "c", "h", "e", ":", " ", "7", " ", "q", "m">>>>
\* a room name two lines below the anchor, under a label line
PageLaterName == <<<<"0", "3", "_", "b", "6", ".", "1", "2">>, <<"U", "K", "R", "D", " ", "2", ",", "5", "0">>, <<"F", "l", "u", "r">>, <<"N", "G", "F", ":", " ", "1", ".", "0", "7", "0", ",", "5", "5", " ", "m", "2">>>>
NamePages == {LateName(NAME_SEARCH - 1), LateName(NAME_SEARCH), PageLaterName}

\* a candidate with two area lines: the legacy form first, and a modern form
\* of value zero first
PageLegacyFirst == <<<<"B", ".", "0", "0", ".", "2", ".", "0", "0", "2">>, <<"F", "=", " ", "5", ",", "5", " ", "m", "2">>, <<"N", "R", "F", ":", " ", "3", ",", "4", "5", " ", "m", "2">>>>
PageZeroFirst   == <<<<"B", ".", "0", "0", ".", "2", ".", "0", "0", "2">>, <<"N", "R", "F", "=", " ", "0", " ", "m", "2">>, <<"F", "=", " ", "5", ",", "5", " ", "m", "2">>>>
FormPages == {PageLegacyFirst, PageZeroFirst}

\* an area token that is no number: alone, before and after a valid area line
PageBadAlone == <<<<"R", "1", "A">>, <<"F", ":", " ", ",", " ", "m", "2">>>>
PageBadFirst == <<<<"B", ".", "0", "0", ".", "2", ".", "0", "0", "2">>, <<"F", ":", " ", ",", " ", "m", "2">>, <<"N", "R", "F", ":", " ", "3", ",", "4", "5", " ", "m", "2">>>>
PageBadLater == <<<<"B", ".", "0", "0", ".", "2", ".", "0", "0", "2">>, <<"N", "R", "F", ":", " ", "3", ",", "4", "5", " ", "m", "2">>, <<"F", ":", " ", ",", " ", "m", "2">>>>
BadTokenPages == {PageBadAlone, PageBadFirst, PageBadLater}

CasePages == OverridePages \cup EdgePages \cup {PageRevisit} \cup DistancePages \cup NamePages \cup FormPages \cup BadTokenPages

\* the pages the documents of the call-level specification are made of
PageHaardtring == <<<<"R", "1", "A">>, <<"B", "a", "l", "k", "o", "n">>, <<"F", ":", " ", "1", "0", ",", "0", "1", " ", "m", "2">>>>
PageLeiq       == <<<<"B", ".", "0", "0", ".", "2", ".", "0", "0", "2">>, <<"F", "l", "u", "r">>, <<"N", "R", "F", ":", " ", "3", ",", "4", "5", " ", "m", "2">>>>
PageOmniturm   == <<<<"0", "3", "_", "b", "6", ".", "1", "2">>, <<"N", "G", "F", ":", " ", "1", ".", "0", "7", "0", ",", "5", "5", " ", "m", "2">>>>
PageMixed      == <<<<"B", ".", "0", "0", ".", "2", ".", "0", "0", "2">>, <<"N", "R", "F", ":", " ", "3", ",", "4", "5", " ", "m", "2">>, <<"0", "3", "_", "b", "6", ".", "1", "2">>, <<"N", "G", "F", ":", " ", "2", ",", "5", "0", "6", " ", "m", "2">>>>
PageGeneric    == <<<<"E", "G", ".", "0", "0", "1">>, <<"L", "a", "g", "e", "r">>, <<"F", "l", "ä", "c", "h", "e", ":", " ", "7", " ", "q", "m">>>>
PageEmpty      == <<<<>>>>
PageBadToken   == <<<<"R", "1", "A">>, <<"F", ":", " ", ",", " ", "m", "2">>>>

PageCatalogue == {PageHaardtring, PageLeiq, PageOmniturm, PageMixed, PageGeneric,
                  PageEmpty, PageBadToken}

\* the pages a document continues with after its first two
LaterPages == {PageHaardtring, PageMixed, PageEmpty}

\* the documents: every one of up to two catalogue pages, and the longer ones
\* that continue with pages of LaterPages
Docs ==
    {d \in UNION {[1..n -> PageCatalogue] : n \in 0..MaxPages} :
        \A n \in DOMAIN d : n > 2 => d[n] \in LaterPages}

Filenames == {<<"p", "l", "a", "n", ".", "P", "D", "F">>, <<"p", "l", "a", "n", ".", "t", "x", "t">>}

Hints == {<<>>, <<<<>>>>, <<<<"h", "a", "a", "r", "d", "t", "r", "i", "n", "g">>>>, <<<<"l", "e", "i", "q">>>>, <<<<"o", "m", "n", "i", "t", "u", "r", "m">>>>,
          <<<<"u", "n", "k", "n", "o", "w", "n">>>>, <<<<"L", "e", "i", "Q">>>>, <<<<"b", "o", "g", "u", "s">>>>}

\* the pages arguments: None, and lists with indices in and beyond the document
PageLists == {<<>>, <<<<0>>>>, <<<<MaxPages, 0>>>>, <<<<1, 1>>>>,
              <<<<0, MaxPages + 1, 1>>>>}

\* the state of a call before its first step
Fresh ==
    /\ style_enum = <<>>
    /\ handle = "unopened"
    /\ style = "unset"
    /\ fn = "unset"
    /\ k = 0
    /\ page_rooms = <<>>
    /\ alt = 0
    /\ room_counter = 0
    /\ rooms = <<>>
    /\ warnings = <<>>
    /\ calls = <<>>
    /\ outcome = NoOutcome
    /\ result = <<>>

\* a request to /extract/areas or a call of extract_to_dict
Init ==
    /\ entry \in {"http", "dict"}
    /\ filename \in Filenames
    /\ fitz \in BOOLEAN
    /\ plumber \in BOOLEAN
    /\ content \in {"pdf", "malformed", "empty"}
    /\ hint \in Hints
    /\ doc \in Docs
    /\ pages \in PageLists
    /\ entry = "dict" => filename = <<"p", "l", "a", "n", ".", "P", "D", "F">> /\ plumber
    /\ entry = "http" => pages = <<>>
    /\ fitz => plumber
    /\ content # "pdf" => doc = <<>>
    /\ arg = <<>>
    /\ pc = "request"
    /\ Fresh

Next ==
    \/ HttpRequest
    \/ DictRequest
    \/ OpenDocument
    \/ DetectStyle
    \/ SkipPage
    \/ RunChosen
    \/ TryAlternative
    \/ TryGeneric
    \/ Finish
    \/ PlumberStart
    \/ PlumberPage
    \/ PlumberFinish

Spec == Init /\ [][Next]_vars

\* one extractor applied to one page
InitFn ==
    /\ entry = "fn"
    /\ filename = <<"p", "l", "a", "n", ".", "P", "D", "F">>
    /\ fitz = TRUE
    /\ plumber = TRUE
    /\ content = "pdf"
    /\ hint = <<>>
    /\ doc \in {<<p>> : p \in FnPages \cup LongPages \cup AnchorPages \cup CasePages}
    /\ pages = <<>>
    /\ arg = <<>>
    /\ pc = "fn"
    /\ Fresh

NextFn ==
    \/ FnHaardtring
    \/ FnLeiq
    \/ FnOmniturm
    \/ FnGeneric
    \/ FnPdfplumber

SpecFn == InitFn /\ [][NextFn]_vars

(***************************************************************************)
(* The helper functions called on their own: the decision tree of          *)
(* detect_blueprint_style on its probes, parse_german_number on a token,   *)
(* categorize_room on a room name.                                         *)
(***************************************************************************)
\* the helper returns value
HelperReturns(value) ==
    /\ result' = <<value>>
    /\ outcome' = Outcome("returned", 0, "")
    /\ pc' = "done"
    /\ UNCHANGED <<Inputs, style_enum, handle, style, fn, k, page_rooms, alt,
                   room_counter, rooms, warnings, calls>>

HelperDecideStyle ==
    /\ pc = "helper"
    /\ arg.fn = "detect_blueprint_style"
    /\ HelperReturns(decide_style(arg.x))

HelperParse ==
    /\ pc = "helper"
    /\ arg.fn = "parse_german_number"
    /\ IF parse_german_number(arg.x) = <<>>
       THEN EndWith(Outcome("ValueError", 0, E_PARSE))
       ELSE HelperReturns(parse_german_number(arg.x)[1])

HelperCategorize ==
    /\ pc = "helper"
    /\ arg.fn = "categorize_room"
    /\ HelperReturns(categorize_room(arg.x))

\* every combination of the ten probes
ProbeValues ==
    [has_f_colon : BOOLEAN, has_f_equals : BOOLEAN, has_nrf : BOOLEAN,
     has_ngf : BOOLEAN, has_r_full : BOOLEAN, has_r_simple : BOOLEAN,
     has_e_apartment : BOOLEAN, has_b_pattern : BOOLEAN,
     has_grid_pattern : BOOLEAN, has_haardtring_codes : BOOLEAN]

\* the tokens over digits, '.' and ',' whose fraction the decimals hold
TokenChars == {"0", "7", ".", ","}
MaxToken == FracDigits + 1
Tokens ==
    UNION {[1..n -> TokenChars] : n \in 0..MaxToken}
    \cup {<<"1", ".", "0", "7", "0", ",", "5", "5">>, <<"2", "2", ",", "7", "9">>, <<"5", "0", ".", "3", "7">>, <<"1", ".", "0", ".", "7", ",", "5">>, <<"1", "2", ",", "5", ".", "5">>}

RoomNames ==
    {<<>>, <<"B", "a", "l", "k", "o", "n">>, <<"B", "A", "L", "K", "O", "N">>, <<"D", "a", "c", "h", "t", "e", "r", "r", "a", "s", "s", "e">>, <<"A", "u", "f", "z", "u", "g", "s", "s", "c", "h", "a", "c", "h", "t">>, <<"B", "a", "d", "e", "z", "i", "m", "m", "e", "r">>,
     <<"T", "e", "c", "h", "n", "i", "k", "s", "c", "h", "a", "c", "h", "t">>, <<"B", "ü", "r", "o">>, <<"B", "Ü", "R", "O", " ", "2">>, <<"F", "l", "u", "r">>, <<"G", "a", "r", "a", "g", "e">>, <<"T", "r", "e", "p", "p", "e", "n", "h", "a", "u", "s">>,
     <<"A", "b", "s", "t", "e", "l", "l", "r", "a", "u", "m">>, <<"W", "C">>, <<"L", "ü", "f", "t", "u", "n", "g">>, <<"L", "a", "g", "e", "r", " ", "K", "ü", "c", "h", "e">>, <<"M", "ü", "l", "l", "r", "a", "u", "m">>,
     <<"E", "l", "e", "k", "t", "r", "o">>, <<"L", "i", "f", "t">>, <<"W", "o", "h", "n", "e", "n", "/", "E", "s", "s", "e", "n">>, <<"L", "o", "g", "g", "i", "a", " ", "a", "m", " ", "B", "a", "d">>}

HelperArgs ==
    {[fn |-> "detect_blueprint_style", x |-> b] : b \in ProbeValues}
    \cup {[fn |-> "parse_german_number", x |-> t] : t \in Tokens}
    \cup {[fn |-> "categorize_room", x |-> n] : n \in RoomNames}

InitHelper ==
    /\ entry = "helper"
    /\ filename = <<"p", "l", "a", "n", ".", "P", "D", "F">>
    /\ fitz = TRUE
    /\ plumber = TRUE
    /\ content = "pdf"
    /\ hint = <<>>
    /\ doc = <<>>
    /\ pages = <<>>
    /\ arg \in HelperArgs
    /\ pc = "helper"
    /\ Fresh

NextHelper ==
    \/ HelperDecideStyle
    \/ HelperParse
    \/ HelperCategorize

SpecHelper == InitHelper /\ [][NextHelper]_vars

(***************************************************************************)
(* Properties of the extractors, checked under SpecFn.                     *)
(***************************************************************************)
\* one of the four extractors has been applied to the page doc[1]
FnRan(names) == pc = "done" /\ entry = "fn" /\ calls[1].extractor \in names

FourExtractors == {"haardtring", "leiq", "omniturm", "generic"}

\* C1: for every room emitted by extract_haardtring, extract_leiq,
\* extract_omniturm or extract_generic, the recorded source_text is a literal
\* substring of the text of the page the room was extracted from.
C1_SourceTextIsPageSubstring ==
    FnRan(FourExtractors) =>
        \A n \in DOMAIN rooms : IsSubstring(rooms[n].source_text, get_text(doc[1]))

ToSet(m) == IF m = <<>> THEN {} ELSE {m[1]}

\* the stripped line j of the page, empty when there is no such line
LineAt(lines, j) == IF j >= 1 /\ j <= Len(lines) THEN strip(lines[j]) ELSE <<>>

\* the numeric tokens that the area patterns of an extractor capture on line j
C2_Tokens(name, lines, j) ==
    LET curr == LineAt(lines, j)
        prev == LineAt(lines, j - 1)
    IN  CASE name = "haardtring" ->
                 ToSet(haardtring_f_match(curr)) \cup
                 (IF prev = <<"F", ":">> THEN ToSet(haardtring_area_match(curr)) ELSE {})
          [] name = "leiq" ->
                 ToSet(leiq_nrf_match(curr)) \cup ToSet(leiq_f_match(curr)) \cup
                 (IF leiq_bare_label(prev) THEN ToSet(leiq_area_match(curr)) ELSE {})
          [] name = "omniturm" ->
                 ToSet(omniturm_ngf_match(curr)) \cup
                 (IF prev = <<"N", "G", "F", ":">> THEN ToSet(omniturm_area_match(curr)) ELSE {}) \cup
                 (IF omniturm_schacht_match(LineAt(lines, j - 2)) # <<>>
                  THEN ToSet(omniturm_schacht_area(curr)) ELSE {})
          [] OTHER -> ToSet(flexible_area_match(curr))

\* the values of the tokens captured on the page
C2_Values(name, lines) ==
    {parse_german_number(t)[1] :
        t \in {u \in UNION {C2_Tokens(name, lines, j) : j \in 1..Len(lines)} :
                  parse_german_number(u) # <<>>}}

\* line j opens an area match: the label with its token, or the label alone
\* with the token on the line the extractor reads it from
C2_LabelAt(name, lines, j) ==
    \/ C2_Tokens(name, <<lines[j]>>, 1) # {}
    \/ /\ j + 1 <= Len(lines)
       /\ C2_Tokens(name, <<lines[j + 1]>>, 1) = {}
       /\ C2_Tokens(name, lines, j + 1) # {}
    \/ /\ name = "omniturm"
       /\ omniturm_schacht_match(LineAt(lines, j)) # <<>>
       /\ C2_Tokens(name, lines, j + 2) # {}

C2_IsAnchor(name, line) ==
    CASE name = "haardtring" -> haardtring_room_match(line) # <<>>
      [] name = "leiq"       -> leiq_room_match(line) # <<>>
      [] name = "omniturm"   -> omniturm_room_match(line) # 0
      [] OTHER               -> flexible_room_match(line) # <<>>

\* the anchors of the page that have an area value in reach: within the
\* lookahead range(i + 1, min(len(lines), i + 15)) for the style extractors;
\* for the generic one at a distance below 15, a following line counting
\* half a line less
C2_AnchorsWithArea(name, lines) ==
    {i \in 1..Len(lines) :
        /\ C2_IsAnchor(name, strip(lines[i]))
        /\ IF name = "generic"
           THEN \E j \in 1..Len(lines) :
                    j - i <= NEAR /\ i - j < NEAR /\ C2_Tokens(name, lines, j) # {}
           ELSE \E j \in (i + 1)..Len(lines) :
                    j <= i + LOOKAHEAD - 1 /\ C2_LabelAt(name, lines, j)}

C2_Anchors(name, lines) == {i \in 1..Len(lines) : C2_IsAnchor(name, strip(lines[i]))}

C9_CountedWithinArea ==
    FnRan(FourExtractors \cup {"pdfplumber"}) =>
        \A n \in DOMAIN rooms :
            /\ rooms[n].factor = Scale => rooms[n].counted_m2 = rooms[n].area_m2
            /\ (rooms[n].factor < Scale /\ rooms[n].factor_source # "explicit_50%")
                   => rooms[n].counted_m2 <= rooms[n].area_m2

\* a balcony counted at the default outdoor factor, below its area
C9_Witness ==
    /\ FnRan({"haardtring"})
    /\ \E n \in DOMAIN rooms :
           /\ rooms[n].factor_source = "default_outdoor"
           /\ rooms[n].factor < Scale
           /\ rooms[n].counted_m2 < rooms[n].area_m2

\* no explicit override token supplied the room's counted value
NoOverride(r) == r.factor_source # "explicit_50%"

\* twice the product area_m2 * factor less twice counted_m2, in units of
\* 1/Scale: the factors of the code are whole halves (1.0 and 0.5)
ProductGap(r) == r.area_m2 * ((2 * r.factor) \div Scale) - 2 * r.counted_m2

\* C10 as stated: for every emitted room whose counted value no explicit
\* override token supplied, counted_m2 equals area_m2 * factor exactly, also
\* for areas printed with more than two decimal digits.
C10_CountedIsExactProduct ==
    FnRan(FourExtractors \cup {"pdfplumber"}) =>
        \A n \in DOMAIN rooms :
            NoOverride(rooms[n])
                => (2 * rooms[n].factor) % Scale = 0 /\ ProductGap(rooms[n]) = 0

\* C10 as amended: for every emitted room whose counted value no explicit
\* override token supplied, counted_m2 equals area_m2 * factor rounded to two
\* decimal digits (it differs from the product by at most 0.005), and equals
\* area_m2 exactly when the factor is 1.0.
C10_CountedIsRoundedProduct ==
    FnRan(FourExtractors \cup {"pdfplumber"}) =>
        \A n \in DOMAIN rooms :
            NoOverride(rooms[n]) =>
                /\ (2 * rooms[n].factor) % Scale = 0
                /\ 100 * ProductGap(rooms[n]) <= Scale
                /\ 100 * ProductGap(rooms[n]) >= 0 - Scale
                /\ rooms[n].factor # Scale
                       => rooms[n].counted_m2 % (Scale \div 100) = 0
                /\ rooms[n].factor = Scale
                       => rooms[n].counted_m2 = rooms[n].area_m2

\* a balcony whose halved area has more than two decimal digits
C10_Witness ==
    /\ FnRan({"haardtring"})
    /\ \E n \in DOMAIN rooms :
           /\ NoOverride(rooms[n])
           /\ rooms[n].factor < Scale
           /\ ProductGap(rooms[n]) # 0

(***************************************************************************)
(* Properties of the calls, checked under Spec.                            *)
(***************************************************************************)
\* the fixed order of the known styles
KnownOrder == <<"haardtring", "leiq", "omniturm">>

\* the known styles other than e, in the fixed order
OthersOf(e) == SelectSeq(KnownOrder, LAMBDA s : s # e)

\* the call of the chosen extractor that opened the page visit of call n
VisitStart(n) ==
    CHOOSE c \in 1..n : calls[c].role = "chosen"
                        /\ \A m \in (c + 1)..n : calls[m].role # "chosen"

\* the last call of the page visit opened by the chosen call c
VisitEnd(c) ==
    CHOOSE e \in c..Len(calls) :
        /\ \A m \in (c + 1)..e : calls[m].role # "chosen"
        /\ e = Len(calls) \/ calls[e + 1].role = "chosen"

\* the alternative calls of the visit opened by c
AlternativesOf(c) ==
    {m \in (c + 1)..VisitEnd(c) : calls[m].role = "alternative"}

\* the fallback stage of the visit opened by c is over
FallbackOver(c) ==
    \/ VisitEnd(c) < Len(calls)
    \/ pc # "fallback"
    \/ \E m \in (c + 1)..VisitEnd(c) : calls[m].role = "generic"

FoundRooms(call) == ~call.raised /\ call.count > 0
FoundNothing(call) == ~call.raised /\ call.count = 0

\* C3: for a page on which the chosen extractor yields zero rooms, the
\* known-style extractors other than the one already tried are run in the
\* fixed order Haardtring, LeiQ, Omniturm; the first one that yields a
\* non-empty result is accepted, no later style extractor is run for that
\* page, and a warning naming that fallback style and the page is appended.
C3_FallbackInFixedOrder ==
    /\ \A c \in DOMAIN calls :
          calls[c].role = "chosen" =>
              LET others == OthersOf(calls[c].extractor)
                  alts   == AlternativesOf(c)
              IN  \* alternatives run only after a chosen extractor found nothing
                  /\ alts # {} => FoundNothing(calls[c])
                  \* they are the next calls, on the same page, in the order
                  /\ \A m \in alts :
                        /\ m - c <= Len(others)
                        /\ calls[m].extractor = others[m - c]
                        /\ calls[m].page = calls[c].page
                        /\ \A j \in (c + 1)..(m - 1) : FoundNothing(calls[j])
                  \* none is left out before the stage ends
                  /\ (FoundNothing(calls[c]) /\ FallbackOver(c)) =>
                        \/ Cardinality(alts) = Len(others)
                        \/ /\ alts # {}
                           /\ ~FoundNothing(calls[c + Cardinality(alts)])
    \* the accepted alternatives and the fallback warnings, one for one
    /\ LET accepted == SelectSeq(calls, LAMBDA x : x.role = "alternative"
                                                    /\ FoundRooms(x))
           fallback == SelectSeq(warnings, LAMBDA w : w.kind = "fallback")
       IN  /\ Len(fallback) = Len(accepted)
           /\ \A n \in DOMAIN accepted :
                 fallback[n] = Warning("fallback", accepted[n].page,
                                       accepted[n].extractor)

\* the second of the other styles was accepted after the first found nothing
C3_Witness ==
    \E n \in DOMAIN calls :
        /\ n > 2
        /\ calls[n].role = "alternative" /\ FoundRooms(calls[n])
        /\ calls[n - 1].role = "alternative" /\ FoundNothing(calls[n - 1])
        /\ calls[n - 2].role = "chosen" /\ FoundNothing(calls[n - 2])
        /\ Warning("fallback", calls[n].page, calls[n].extractor)
               = warnings[Len(warnings)]

\* C4: GenericExtractor is run as a fallback for a page only if the chosen
\* style's extractor and both other known-style extractors all yielded zero
\* rooms for that page: the rooms of one page never combine the output of an
\* accepted alternate-style extractor with the output of the generic one.
C4_GenericOnlyWhenStillEmpty ==
    \A n \in DOMAIN calls :
        calls[n].role = "generic" =>
            \A m \in VisitStart(n)..(n - 1) : FoundNothing(calls[m])

\* C5: a numeric capture that fails to parse only drops the affected room
\* candidate: no extractor call raises, the remaining pages are processed and
\* extract_room_areas returns a result instead of propagating the failure.
C5_ParseFailureDropsCandidateOnly ==
    /\ \A n \in DOMAIN calls : ~calls[n].raised
    /\ outcome.detail # E_PARSE

\* the three known style names
KnownNames == {<<"h", "a", "a", "r", "d", "t", "r", "i", "n", "g">>, <<"l", "e", "i", "q">>, <<"o", "m", "n", "i", "t", "u", "r", "m">>}

\* C6: a style hint is accepted only if it is, case-insensitively, one of the
\* three known style names; any other hint value is rejected with a
\* validation error before the document is opened, detection is run or any
\* page is processed.
C6_OtherHintRejected ==
    (TruthyStr(hint) /\ lower(hint[1]) \notin KnownNames) =>
        /\ pc \in {"request", "done"}
        /\ handle = "unopened"
        /\ style = "unset"
        /\ calls = <<>>
        /\ pc = "done" => outcome.kind \in {"HTTPException", "ValueError"}

\* C7: once extract_room_areas has opened the document, the handle is closed
\* on every exit path of the call; no execution ends with the handle open.
C7_HandleClosedOnExit == pc = "done" => handle # "open"

\* the requested indices that lie in the document, in the order requested
InRangeIndices ==
    SelectSeq(page_indices(pages, doc), LAMBDA i : ~out_of_range(i, doc))
OutOfRangeIndices ==
    SelectSeq(page_indices(pages, doc), LAMBDA i : out_of_range(i, doc))

\* the pages of the calls of the chosen extractor, in the order called
ExtractedPages ==
    LET chosen == SelectSeq(calls, LAMBDA x : x.role = "chosen")
    IN  [n \in DOMAIN chosen |-> chosen[n].page]

\* C8: a requested page index greater than or equal to the document's page
\* count appends a warning, contributes no rooms and does not stop
\* processing: every later requested in-range index is still extracted and
\* the call returns a result instead of failing.
C8_OutOfRangeIndexSkipped ==
    (pc = "done" /\ \E n \in DOMAIN warnings : warnings[n].kind = "page_missing") =>
        /\ outcome.kind = "returned"
        /\ ExtractedPages = InRangeIndices
        /\ SelectSeq(warnings, LAMBDA w : w.kind = "page_missing")
               = [n \in DOMAIN OutOfRangeIndices |->
                     Warning("page_missing", OutOfRangeIndices[n], "")]
        /\ \A n \in DOMAIN rooms : ~out_of_range(rooms[n].page, doc)

(***************************************************************************)
(* Properties of the result of extract_room_areas, checked under Spec.     *)
(***************************************************************************)
\* extract_room_areas has returned its ExtractionResult
Returns == pc = "done" /\ result # <<>>
                       /\ result[1].extraction_method = "unified_extraction"

RECURSIVE Total(_)
Total(nums) == IF nums = <<>> THEN 0 ELSE Head(nums) + Total(Tail(nums))

\* total is a number of hundredths and no other number of hundredths is
\* nearer to sum
IsRounded2(total, sum) ==
    /\ total % (Scale \div 100) = 0
    /\ 2 * (total - sum) <= Scale \div 100
    /\ 2 * (sum - total) <= Scale \div 100

\* C11: in the result of extract_room_areas, total_area_m2 is the sum of
\* area_m2 over all rooms of the result rounded to 2 decimals,
\* total_counted_m2 is the sum of counted_m2 over all rooms rounded to 2
\* decimals, and room_count is the number of rooms in the list, whatever
\* extractors and fallbacks produced the rooms.
C11_TotalsAreRoundedSums ==
    Returns =>
        LET r == result[1]
        IN  /\ r.rooms = rooms
            /\ r.room_count = Len(r.rooms)
            /\ IsRounded2(r.total_area_m2,
                          Total([n \in 1..Len(r.rooms) |-> r.rooms[n].area_m2]))
            /\ IsRounded2(r.total_counted_m2,
                          Total([n \in 1..Len(r.rooms) |-> r.rooms[n].counted_m2]))

\* a result whose rooms come from a chosen extractor and from a fallback, and
\* whose sum of areas is not a number of hundredths
C11_Witness ==
    /\ Returns
    /\ \E n \in DOMAIN warnings : warnings[n].kind = "fallback"
    /\ \E n \in DOMAIN calls : calls[n].role = "chosen" /\ calls[n].count > 0
    /\ Total([n \in 1..Len(rooms) |-> rooms[n].area_m2]) % (Scale \div 100) # 0
    /\ result[1].room_count >= 2

\* the counted_m2 of the rooms of category c, in order
CountedOf(rs, c) ==
    LET sel == SelectSeq(rs, LAMBDA x : x.category = c)
    IN  [n \in 1..Len(sel) |-> sel[n].counted_m2]

\* the sum of the values of f over the keys S
RECURSIVE SumOver(_, _)
SumOver(f, S) ==
    IF S = {} THEN 0
    ELSE LET x == CHOOSE x \in S : TRUE IN f[x] + SumOver(f, S \ {x})

\* C12: in the result of extract_room_areas, totals_by_category has exactly
\* one key per category that occurs among the rooms, each value is the
\* 2-decimal-rounded sum of counted_m2 of the rooms of that category, and the
\* sum of all its values differs from total_counted_m2 by no more than 0.005
\* per category present plus 0.005.
C12_CategoryTotals ==
    Returns =>
        LET r    == result[1]
            t    == r.totals_by_category
            cats == {r.rooms[n].category : n \in 1..Len(r.rooms)}
            gap  == SumOver(t, DOMAIN t) - r.total_counted_m2
        IN  /\ DOMAIN t = cats
            /\ \A c \in cats : IsRounded2(t[c], Total(CountedOf(r.rooms, c)))
            /\ 2 * gap <= (Cardinality(cats) + 1) * (Scale \div 100)
            /\ 2 * (0 - gap) <= (Cardinality(cats) + 1) * (Scale \div 100)

\* a result with rooms of two categories, one of them holding two rooms, and
\* a category sum that is not a number of hundredths
C12_Witness ==
    /\ Returns
    /\ Cardinality(DOMAIN result[1].totals_by_category) >= 2
    /\ \E c \in DOMAIN result[1].totals_by_category :
          /\ Len(CountedOf(rooms, c)) >= 2
          /\ Total(CountedOf(rooms, c)) % (Scale \div 100) # 0

(***************************************************************************)
(* Properties of the helper functions, checked under SpecHelper.           *)
(***************************************************************************)
\* the helper f has been applied to arg.x
HelperRan(f) == pc = "done" /\ entry = "helper" /\ arg.fn = f

\* C14: detect_blueprint_style, as a function of its boolean probes, returns
\* Haardtring when F: co-occurs with a Haardtring room identifier or with
\* Haardtring metadata codes; otherwise LeiQ when NRF: or F= co-occurs with
\* the B-pattern identifier; otherwise Omniturm when NGF: is present;
\* otherwise LeiQ when NRF: or F= is present; otherwise Haardtring when F: is
\* present; and 'unknown' if no probe fires.
C14_DecisionTreePrecedence ==
    HelperRan("detect_blueprint_style") =>
        LET b  == arg.x
            fA == b.has_f_colon /\ (\/ b.has_r_full \/ b.has_r_simple
                                    \/ b.has_e_apartment \/ b.has_haardtring_codes)
            fB == (b.has_nrf \/ b.has_f_equals) /\ b.has_b_pattern
            fC == b.has_ngf
            fD == b.has_nrf \/ b.has_f_equals
            fE == b.has_f_colon
            r  == result[1]
        IN  /\ result # <<>>
            /\ fA => r = "haardtring"
            /\ ~fA /\ fB => r = "leiq"
            /\ ~fA /\ ~fB /\ fC => r = "omniturm"
            /\ ~fA /\ ~fB /\ ~fC /\ fD => r = "leiq"
            /\ ~fA /\ ~fB /\ ~fC /\ ~fD /\ fE => r = "haardtring"
            /\ (\A f \in DOMAIN b : ~b[f]) => r = "unknown"

\* the LeiQ co-occurrence branch wins over a present NGF: label
C14_Witness ==
    /\ HelperRan("detect_blueprint_style")
    /\ arg.x.has_nrf /\ arg.x.has_b_pattern /\ arg.x.has_ngf /\ arg.x.has_grid_pattern
    /\ ~arg.x.has_f_colon
    /\ result = <<"leiq">>

\* the characters of t that are in C, in order
Only(t, C) == SelectSeq(t, LAMBDA ch : ch \in C)

\* the natural number a string of digits writes
RECURSIVE NatOf(_, _)
NatOf(ds, acc) ==
    IF ds = <<>> THEN acc
    ELSE NatOf(Tail(ds), 10 * acc + (CHOOSE d \in 0..9 : ToString(d) = Head(ds)))

\* what the token stands for by the rule of the claim: <<v>>, or <<>> when
\* the normalized string is no decimal numeral.  With a ',' in the token the
\* ',' is the decimal point and every '.' is dropped, otherwise '.' is it.
Denotes(t) ==
    LET point  == IF "," \in {t[i] : i \in 1..Len(t)} THEN "," ELSE "."
        points == {i \in 1..Len(t) : t[i] = point}
        at     == IF points = {} THEN Len(t) + 1 ELSE CHOOSE i \in points : TRUE
        frac   == Len(Only(SubSeq(t, at + 1, Len(t)), Digits))
    IN  IF Cardinality(points) > 1 \/ Only(t, Digits) = <<>> THEN <<>>
        ELSE <<NatOf(Only(t, Digits), 0) * Pow10(FracDigits - frac)>>

\* C15: parse_german_number on a token over digits, '.' and ',': with both
\* '.' and ',' every '.' is stripped and ',' is the decimal point, with only
\* ',' the ',' is the decimal point, otherwise the token is parsed as it is;
\* and when the normalized string is not a valid decimal numeral the call
\* fails with a parse error instead of returning a value.
C15_GermanNumberRule ==
    HelperRan("parse_german_number") =>
        IF Denotes(arg.x) = <<>>
        THEN result = <<>> /\ outcome.kind = "ValueError" /\ outcome.detail = E_PARSE
        ELSE result = Denotes(arg.x) /\ outcome.kind = "returned"

\* "1.070,55" gives 1070.55
C15_Witness ==
    /\ HelperRan("parse_german_number")
    /\ arg.x = <<"1", ".", "0", "7", "0", ",", "5", "5">>
    /\ result = <<1070 * Scale + 55 * (Scale \div 100)>>

\* the order of the categories the claim names
TableOrder == <<"office", "residential", "circulation", "stairs", "elevators",
                "shafts", "technical", "sanitary", "storage", "outdoor">>

\* keyword kw occurs in name, letter case ignored
OccursNoCase(kw, name) == \E i \in 1..Len(name) : LitI(name, i, kw) # 0

\* the positions in TableOrder of the categories one of whose keywords
\* occurs in name
Matching(name) ==
    {m \in 1..Len(TableOrder) :
        \E c \in 1..Len(ROOM_CATEGORIES) :
            /\ ROOM_CATEGORIES[c].category = TableOrder[m]
            /\ \E n \in 1..Len(ROOM_CATEGORIES[c].keywords) :
                  OccursNoCase(ROOM_CATEGORIES[c].keywords[n], name)}

\* C16: categorize_room returns the first category, in the order office,
\* residential, circulation, stairs, elevators, shafts, technical, sanitary,
\* storage, outdoor, one of whose keywords occurs as a case-insensitive
\* substring of the room name (the earliest wins when several match), and
\* 'other' when no keyword matches or the name is empty.
C16_FirstMatchingCategory ==
    HelperRan("categorize_room") =>
        /\ result # <<>>
        /\ \A m \in Matching(arg.x) :
              (\A o \in Matching(arg.x) : m <= o) => result[1] = TableOrder[m]
        /\ Matching(arg.x) = {} => result[1] = "other"
        /\ arg.x = <<>> => result[1] = "other"

\* a name with keywords of two categories gets the earlier one
C16_Witness ==
    /\ HelperRan("categorize_room")
    /\ arg.x = <<"A", "u", "f", "z", "u", "g", "s", "s", "c", "h", "a", "c", "h", "t">>
    /\ Cardinality(Matching(arg.x)) = 2
    /\ result = <<"elevators">>

(***************************************************************************)
(* Properties of the unknown style and of the degraded path, checked       *)
(* under Spec.                                                             *)
(***************************************************************************)
\* no style was supplied and detection has classified the text as unknown
DetectedUnknown ==
    /\ style_enum = <<>>
    /\ style # "unset"
    /\ detect_blueprint_style(full_text(doc)) = "unknown"

\* the pages on which an extractor was run first, in order
FirstRunPages ==
    LET first == SelectSeq(calls, LAMBDA c : c.role = "chosen")
    IN  [n \in 1..Len(first) |-> first[n].page]

\* C17: when no style is supplied and detection classifies the document
\* text as 'unknown', the result of extract_room_areas reports
\* blueprint_style 'unknown', its warnings list is non-empty, and the generic
\* extractor is the first extractor run on every processed in-range page.
C17_UnknownStyleRunsGeneric ==
    DetectedUnknown =>
        /\ \A n \in DOMAIN calls :
              /\ calls[n].role = "chosen" => calls[n].extractor = "generic"
              /\ calls[n].role # "chosen" =>
                    n > 1 /\ calls[n - 1].page = calls[n].page
        /\ Returns =>
              /\ result[1].blueprint_style = "unknown"
              /\ result[1].warnings # <<>>
              /\ FirstRunPages
                    = SelectSeq(page_indices(pages, doc),
                                LAMBDA i : ~out_of_range(i, doc))

\* an undetected two-page document whose pages both went through the
\* generic extractor first, one of them on to the style extractors
C17_Witness ==
    /\ DetectedUnknown
    /\ Returns
    /\ Len(FirstRunPages) = 2
    /\ Len(calls) > 2
    /\ result[1].room_count > 0

\* the request passed the checks made before extraction starts
RequestAccepted == outcome.code # 400

\* the n-th synthetic identifier: room_001, room_002, ...
SyntheticId(n) ==
    <<"r", "o", "o", "m", "_">> \o (IF n < 10 THEN <<"0", "0", ToString(n)>>
                 ELSE <<"0", ToString(n \div 10), ToString(n % 10)>>)

\* r is a result of the degraded path, told apart by its fields
Degraded(r) ==
    /\ r.blueprint_style = "unknown"
    /\ r.extraction_method = "pdfplumber_fallback"
    /\ r.warnings # <<>>
    /\ \A n \in DOMAIN r.rooms :
          /\ r.rooms[n].room_name = <<"U", "n", "k", "n", "o", "w", "n">>
          /\ r.rooms[n].room_number = SyntheticId(n)
          /\ n > 1 => r.rooms[n - 1].page <= r.rooms[n].page

\* C18: when the primary text-extraction dependency is unavailable, the
\* /extract/areas request is served by the degraded path instead of failing,
\* and the degraded result is distinguishable: blueprint_style 'unknown',
\* the fallback extraction_method, every room name 'Unknown', non-empty
\* warnings, and room identifiers room_001, room_002, ... in match order
\* across all processed pages with no gaps and no repeats.
C18_DegradedPathServes ==
    (entry = "http" /\ ~fitz /\ pc = "done") =>
        \* the missing dependency never ends the request
        /\ outcome.detail # E_FITZ
        \* an accepted request ends on the degraded path: with its result, or
        \* with that path's own failure to import or to read the upload
        /\ RequestAccepted =>
              IF plumber /\ content = "pdf"
              THEN result # <<>> /\ outcome.kind = "returned"
              ELSE outcome.detail \in {E_PLUMBER, E_NOINPUT, E_OPEN}
        /\ result # <<>> => Degraded(result[1])

\* a degraded result with a room on each of two pages
C18_Witness ==
    /\ entry = "http" /\ ~fitz /\ pc = "done"
    /\ result # <<>>
    /\ Len(result[1].rooms) = 2
    /\ result[1].rooms[1].page < result[1].rooms[2].page
    /\ result[1].rooms[2].room_number = <<"r", "o", "o", "m", "_", "0", "0", "2">>

(***************************************************************************)
(* Properties of the style extractors, checked under SpecFn.               *)
(***************************************************************************)
StyleExtractors == {"haardtring", "leiq", "omniturm"}

\* the room number an extractor gives the candidate opened by line
AnchorId(name, line) ==
    CASE name = "haardtring" -> haardtring_room_match(line)[1]
      [] name = "leiq"       -> leiq_room_match(line)[1]
      [] OTHER               -> line

\* the last line read for the area match that line j opens
LabelEnd(name, lines, j) ==
    IF C2_Tokens(name, <<lines[j]>>, 1) # {} THEN j
    ELSE IF name = "omniturm" /\ omniturm_schacht_match(LineAt(lines, j)) # <<>>
    THEN j + 2
    ELSE j + 1

\* the anchors with an area match in their lookahead and no line that opens
\* a room candidate between the anchor and the end of that match
CleanAnchors(name, lines) ==
    {i \in C2_Anchors(name, lines) :
        \E j \in (i + 1)..Len(lines) :
            /\ j <= i + LOOKAHEAD - 1
            /\ C2_LabelAt(name, lines, j)
            /\ \A m \in (i + 1)..LabelEnd(name, lines, j) :
                  ~C2_IsAnchor(name, LineAt(lines, m))}

\* C19: in each style extractor the lookahead of a room candidate stops at
\* the first following line that itself opens a room candidate under that
\* style's room-identifier grammar: a value found on or after such a line is
\* never attributed to the earlier anchor, so no single area line produces
\* records for two different anchors.
C19_LookaheadStopsAtNextAnchor ==
    FnRan(StyleExtractors) =>
        LET name == calls[1].extractor
        IN  /\ \A n \in DOMAIN rooms :
                  \E i \in CleanAnchors(name, doc[1]) :
                      rooms[n].room_number = AnchorId(name, LineAt(doc[1], i))
            /\ Len(rooms) <= Cardinality({j \in 1..Len(doc[1]) :
                                             C2_LabelAt(name, doc[1], j)})

\* C20: in each of the three style extractors a room emitted without an
\* override token whose category resolves to outdoor has factor 0.5 with
\* provenance 'default outdoor' and counted_m2 equal to half its area (to the
\* two decimals the halved value is rounded to), and a room emitted without
\* an override token whose category is not outdoor has factor 1.0; the
\* policy does not differ between the variants.
C20_OutdoorPolicyIsUniform ==
    FnRan(StyleExtractors) =>
        \A n \in DOMAIN rooms :
            NoOverride(rooms[n]) =>
                IF rooms[n].category = "outdoor"
                THEN /\ rooms[n].factor = Scale \div 2
                     /\ rooms[n].factor_source = "default_outdoor"
                     /\ 100 * (2 * rooms[n].counted_m2 - rooms[n].area_m2) <= Scale
                     /\ 100 * (rooms[n].area_m2 - 2 * rooms[n].counted_m2) <= Scale
                ELSE rooms[n].factor = Scale

(***************************************************************************)
(* Properties of the lookahead of the style extractors, checked under      *)
(* SpecFn.                                                                 *)
(***************************************************************************)
\* the lines of the lookahead of anchor i that open its first area match
FirstLabels(name, lines, i) ==
    {j \in (i + 1)..Min(Len(lines), i + LOOKAHEAD - 1) :
        /\ C2_LabelAt(name, lines, j)
        /\ \A m \in (i + 1)..(j - 1) : ~C2_LabelAt(name, lines, m)}

\* the value of the area token of the match that line j opens
LabelValue(name, lines, j) ==
    parse_german_number(CHOOSE t \in C2_Tokens(name, lines, LabelEnd(name, lines, j)) : TRUE)

\* the extractor has returned the rooms of the page
FnReturned(names) == FnRan(names) /\ ~calls[1].raised

\* C21: in extract_haardtring, when the line directly after the matched area
\* value (inline 'F: v m2', or split 'F:' then 'v m2') is an override token
\* '50%: w m2', the emitted room has area_m2 = v, counted_m2 = w taken
\* verbatim, factor 0.5 and the explicit-override provenance, whatever the
\* room's name or category.
C21_ExplicitOverrideVerbatim ==
    FnReturned({"haardtring"}) =>
        \A i \in CleanAnchors("haardtring", doc[1]) :
            \A j \in FirstLabels("haardtring", doc[1], i) :
                LET v == LabelValue("haardtring", doc[1], j)
                    o == haardtring_b_match(
                             LineAt(doc[1], LabelEnd("haardtring", doc[1], j) + 1))
                IN  o # <<>> /\ Truthy(v) =>
                        \E n \in DOMAIN rooms :
                            /\ rooms[n].room_number = AnchorId("haardtring", LineAt(doc[1], i))
                            /\ rooms[n].area_m2 = v[1]
                            /\ <<rooms[n].counted_m2>> = parse_german_number(o[1])
                            /\ rooms[n].factor = Scale \div 2
                            /\ rooms[n].factor_source = "explicit_50%"

\* the name of the form of the area match that line j opens: the modern
\* label, the legacy label, or the bare label that stands alone on the line
LeiqForm(lines, j) ==
    IF leiq_nrf_match(LineAt(lines, j)) # <<>> THEN <<"N", "R", "F", ":">>
    ELSE IF leiq_f_match(LineAt(lines, j)) # <<>> THEN <<"F", "=">>
    ELSE LineAt(lines, j)

\* the rooms an extractor emitted under the identifier of anchor i
RoomsOf(name, lines, i) ==
    {n \in DOMAIN rooms : rooms[n].room_number = AnchorId(name, LineAt(lines, i))}

\* no other anchor of the page has the identifier of anchor i
SoleAnchor(name, lines, i) ==
    \A m \in C2_Anchors(name, lines) :
        AnchorId(name, LineAt(lines, m)) = AnchorId(name, LineAt(lines, i)) => m = i

\* C22: in extract_leiq the modern form (NRF) is tried before the legacy form
\* (F=) and a value is recorded only while the candidate has none: the area
\* of a room is the value of the first area line of its window, no later
\* area line replaces it (not even a recorded zero, which emits nothing), and
\* the matched-rule name is that of the form that supplied the value.
C22_FirstAreaLineIsKept ==
    FnReturned({"leiq"}) =>
        \A i \in CleanAnchors("leiq", doc[1]) :
            \A j \in FirstLabels("leiq", doc[1], i) :
                LET v == LabelValue("leiq", doc[1], j)
                    mine == RoomsOf("leiq", doc[1], i)
                    kept(n) == /\ rooms[n].area_m2 = v[1]
                               /\ rooms[n].extraction_pattern = LeiqForm(doc[1], j)
                IN  /\ Truthy(v) => \E n \in mine : kept(n)
                    /\ SoleAnchor("leiq", doc[1], i) =>
                           IF Truthy(v) THEN \A n \in mine : kept(n) ELSE mine = {}

\* a candidate whose window holds a legacy-form line and then a modern-form
\* line of another value: its room has the legacy value and the legacy name
C22_Witness ==
    /\ FnReturned({"leiq"})
    /\ Len(rooms) = 1
    /\ rooms[1].extraction_pattern = <<"F", "=">>
    /\ \E i \in CleanAnchors("leiq", doc[1]) :
       \E j \in FirstLabels("leiq", doc[1], i) :
       \E m \in (j + 1)..Min(Len(doc[1]), i + LOOKAHEAD - 1) :
           /\ leiq_f_match(LineAt(doc[1], j)) # <<>>
           /\ leiq_nrf_match(LineAt(doc[1], m)) # <<>>
           /\ parse_german_number(leiq_nrf_match(LineAt(doc[1], m))[1]) # <<rooms[1].area_m2>>

\* the 14 lines that follow anchor line i
Lookahead(lines, i) == (i + 1)..Min(Len(lines), i + LOOKAHEAD - 1)

\* the values of the tokens that match reads on the lines of the set js
ValuesOn(lines, js, match(_)) ==
    {parse_german_number(match(LineAt(lines, j))[1]) :
        j \in {m \in js : match(LineAt(lines, m)) # <<>>}}

\* C23: for every room emitted by a style extractor, every line from which
\* its area value, override value, perimeter or height was read lies within
\* the 14 lines that follow its anchor line, also when the area label and
\* its value are split over two lines.
C23_ValuesReadWithinLookahead ==
    FnReturned(StyleExtractors) =>
        LET name  == calls[1].extractor
            lines == doc[1]
        IN  \A n \in DOMAIN rooms :
                \E i \in C2_Anchors(name, lines) :
                    /\ rooms[n].room_number = AnchorId(name, LineAt(lines, i))
                    /\ \E j \in Lookahead(lines, i) :
                           \E t \in C2_Tokens(name, lines, j) :
                               parse_german_number(t) = <<rooms[n].area_m2>>
                    /\ rooms[n].factor_source = "explicit_50%" =>
                           <<rooms[n].counted_m2>> \in
                               ValuesOn(lines, Lookahead(lines, i), haardtring_b_match)
                    /\ rooms[n].perimeter_m # <<>> =>
                           rooms[n].perimeter_m \in
                               ValuesOn(lines, Lookahead(lines, i), leiq_u_match)
                    /\ rooms[n].height_m # <<>> =>
                           rooms[n].height_m \in
                               ValuesOn(lines, Lookahead(lines, i), leiq_lh_match)

\* the occurrences of an anchor line that find an area of their own
Emitting(name, lines) ==
    {i \in CleanAnchors(name, lines) :
        \A j \in FirstLabels(name, lines, i) : Truthy(LabelValue(name, lines, j))}

\* C24: within one page scan by extract_omniturm no two emitted rooms carry
\* the same room identifier, even when the same anchor line recurs on the
\* page: an identifier is visited exactly when a room is emitted for it, so
\* an anchor line with an occurrence that finds an area emits once, also when
\* an earlier occurrence found none, and the visited set starts empty.
C24_OneRoomPerIdentifier ==
    FnReturned({"omniturm"}) =>
        /\ \A m, n \in DOMAIN rooms :
               rooms[m].room_number = rooms[n].room_number => m = n
        /\ \A i \in Emitting("omniturm", doc[1]) :
               Cardinality(RoomsOf("omniturm", doc[1], i)) = 1

\* a page on which one anchor line stands twice, each occurrence with an area
\* of its own, and one room
C24_Witness ==
    /\ FnReturned({"omniturm"})
    /\ Len(rooms) = 1
    /\ \E i, m \in Emitting("omniturm", doc[1]) :
           i < m /\ LineAt(doc[1], i) = LineAt(doc[1], m)

(***************************************************************************)
(* Properties of extract_generic, checked under SpecFn.                    *)
(***************************************************************************)
\* the identifier that each line of the page opens, if any
IdLines(lines) == [j \in 1..Len(lines) |-> flexible_room_match(LineAt(lines, j))]

\* the first line of the page on which an identifier stands (0: none)
FirstLine(ids, id) ==
    LET at == {j \in DOMAIN ids : ids[j] = <<id>>}
    IN  IF at = {} THEN 0 ELSE CHOOSE j \in at : \A m \in at : j <= m

\* the lines of the page that hold an area match of a plausible value
AreaLines(lines) ==
    {j \in 1..Len(lines) :
        LET m == flexible_area_match(LineAt(lines, j))
        IN  /\ m # <<>>
            /\ parse_german_number(m[1]) # <<>>
            /\ plausible_area(parse_german_number(m[1])[1])}

AreaValue(lines, j) == parse_german_number(flexible_area_match(LineAt(lines, j))[1])[1]

\* area line a is eligible for an identifier on line r
InReach(a, r) == IF a > r THEN 2 * (a - r) - 1 < 2 * NEAR ELSE 2 * (r - a) < 2 * NEAR

\* the lines a - r apart, in either direction
Apart(a, r) == IF a > r THEN a - r ELSE r - a

\* the area lines of the page have pairwise different texts, so that the
\* source_text of a room names the line its area was taken from
DistinctAreaLines(lines, areas) ==
    \A a, b \in areas : LineAt(lines, a) = LineAt(lines, b) => a = b

\* the identifiers and the area lines of the page and, for every room, the
\* first line of its identifier and the area line its source_text names
\* (0: none)
AssignmentOf(lines, areas, ids) ==
    LET named(n) == {a \in areas : LineAt(lines, a) = rooms[n].source_text}
    IN  [areas    |-> areas,
         ids      |-> ids,
         distinct |-> DistinctAreaLines(lines, areas),
         first    |-> [n \in DOMAIN rooms |-> FirstLine(ids, rooms[n].room_number)],
         line     |-> [n \in DOMAIN rooms |->
                          IF named(n) = {} THEN 0 ELSE CHOOSE a \in named(n) : TRUE]]

Assignment(lines) ==
    CHOOSE g \in {AssignmentOf(lines, areas, ids) :
                     areas \in {AreaLines(lines)}, ids \in {IdLines(lines)}} : TRUE

\* the area lines used before the n-th room
UsedBefore(g, n) == {g.line[m] : m \in 1..(n - 1)}

\* the first lines of the identifiers that have an area line in reach
Served(g) ==
    {r \in DOMAIN g.ids :
        /\ g.ids[r] # <<>>
        /\ FirstLine(g.ids, g.ids[r][1]) = r
        /\ \E a \in g.areas : InReach(a, r)}

\* C25: in extract_generic identifiers are processed in the order of their
\* first appearance on the page, each distinct identifier yields at most one
\* room, and each area match is assigned to at most one identifier: the
\* first identifier with an area in reach takes one, and an area taken by an
\* earlier identifier is never given to a later one, even when the later
\* one is strictly closer to it.
C25_GreedyInOrderOfAppearance ==
    FnRan({"generic"}) =>
        \A g \in {Assignment(doc[1])} :
        \A served \in {Served(g)} :
            /\ \A n \in DOMAIN rooms : g.first[n] # 0
            /\ \A m, n \in DOMAIN rooms : m < n => g.first[m] < g.first[n]
            /\ \A n \in DOMAIN rooms :
                   Cardinality({m \in DOMAIN rooms :
                                   rooms[m].source_text = rooms[n].source_text})
                       <= Cardinality({a \in g.areas :
                                          LineAt(doc[1], a) = rooms[n].source_text})
            /\ served # {} =>
                   /\ rooms # <<>>
                   /\ \A r \in served : g.first[1] <= r

\* a page with one area line and two identifiers, the later one strictly
\* closer to the area: the one room is that of the earlier identifier
C25_Witness ==
    /\ FnRan({"generic"})
    /\ Len(rooms) = 1
    /\ Cardinality(AreaLines(doc[1])) = 1
    /\ \E r, s \in Served(Assignment(doc[1])) :
       \E a \in AreaLines(doc[1]) :
           /\ r < s /\ s < a
           /\ Assignment(doc[1]).first[1] = r

\* C26: for every room emitted by extract_generic the line of its assigned
\* area match is at an absolute line-index distance strictly less than 15
\* from the first line of its identifier, whether the area lies before or
\* after the identifier.
C26_AreaWithinFifteenLines ==
    FnRan({"generic"}) =>
        \A g \in {Assignment(doc[1])} :
            g.distinct =>
                \A n \in DOMAIN rooms :
                    /\ g.line[n] # 0
                    /\ rooms[n].area_m2 = AreaValue(doc[1], g.line[n])
                    /\ Apart(g.line[n], g.first[n]) < NEAR

\* C27: in extract_generic the area assigned to an identifier is, among the
\* not-yet-used area matches, one with minimal absolute line-index distance
\* to the identifier's line; when an area before and an area after are at
\* the same distance the one after is chosen, and the preference for
\* 'after' never lets a strictly farther area win over a strictly nearer one.
C27_NearestUnusedArea ==
    FnRan({"generic"}) =>
        \A g \in {Assignment(doc[1])} :
            g.distinct =>
                \A n \in DOMAIN rooms :
                    LET r == g.first[n]
                        a == g.line[n]
                    IN  /\ a \in g.areas \ UsedBefore(g, n)
                        /\ \A b \in g.areas \ UsedBefore(g, n) :
                               \/ Apart(a, r) < Apart(b, r)
                               \/ Apart(a, r) = Apart(b, r) /\ a >= b

\* an identifier between two areas at the same distance: the room has the
\* area after it
C27_Witness ==
    /\ FnRan({"generic"})
    /\ Assignment(doc[1]).distinct
    /\ Len(rooms) = 1
    /\ \E a, b \in AreaLines(doc[1]) :
           LET r == Assignment(doc[1]).first[1]
           IN  /\ b < r /\ r < a /\ r - b = a - r
               /\ Assignment(doc[1]).line[1] = a

\* the lines strictly between the identifier's line r and the area's line a
\* that pass as a room name
NamesBetween(lines, r, a) ==
    {j \in 1..Len(lines) :
        /\ (r < j /\ j < a) \/ (a < j /\ j < r)
        /\ generic_is_name(LineAt(lines, j))}

\* C28: in extract_generic the room name of an emitted room is the first
\* line between the identifier's line and its assigned area's line that is
\* neither a numeric-only nor a label-only line, however many lines lie
\* between them; it is 'Unknown' only when no such line exists between the
\* two.
C28_NameIsFirstLineBetween ==
    FnRan({"generic"}) =>
        \A g \in {Assignment(doc[1])} :
            g.distinct =>
                \A n \in DOMAIN rooms :
                    LET names == NamesBetween(doc[1], g.first[n], g.line[n])
                    IN  rooms[n].room_name =
                            IF names = {} THEN Unknown
                            ELSE LineAt(doc[1], CHOOSE j \in names : \A m \in names : j <= m)

(***************************************************************************)
(* The room name of the style extractors, checked under SpecFn.            *)
(***************************************************************************)
\* the line passes the name filter of the style and opens no room candidate
NameLine(name, s) ==
    /\ s # <<>>
    /\ ~C2_IsAnchor(name, s)
    /\ CASE name = "haardtring" -> ~haardtring_not_a_name(s)
         [] name = "leiq"       -> ~leiq_not_a_name(s)
         [] OTHER               -> ~omniturm_not_a_name(s)

\* the name the line after anchor i gives a room
NameAfter(name, lines, i) ==
    IF NameLine(name, LineAt(lines, i + 1)) THEN LineAt(lines, i + 1) ELSE Unknown

\* C29: in each of the three style extractors the name of an emitted room is
\* the line immediately following its anchor line when that line is
\* non-empty and is not itself a label or anchor token, and the sentinel
\* 'Unknown' otherwise; no line further down the window is used as the name.
C29_NameIsLineAfterAnchor ==
    FnReturned(StyleExtractors) =>
        LET name == calls[1].extractor
        IN  \A n \in DOMAIN rooms :
                \E i \in C2_Anchors(name, doc[1]) :
                    /\ rooms[n].room_number = AnchorId(name, LineAt(doc[1], i))
                    /\ rooms[n].room_name = NameAfter(name, doc[1], i)

(***************************************************************************)
(* The style and the page count that extract_room_areas reports, checked   *)
(* under Spec.                                                             *)
(***************************************************************************)
\* the calls that produced the rooms of the result
Producers == {n \in DOMAIN calls : calls[n].count > 0}

\* C30: the per-page fallback cascade never changes the style reported by
\* extract_room_areas: blueprint_style in the result is the caller-supplied
\* style when one is supplied (detection is then not consulted) and the
\* detected style otherwise, even when every room of the result was produced
\* by another style's extractor or by the generic extractor; page_count is
\* the document's page count whatever page subset was requested.
C30_CascadeKeepsReportedStyle ==
    Returns =>
        /\ result[1].blueprint_style =
               IF style_enum # <<>> THEN style_enum[1]
               ELSE detect_blueprint_style(full_text(doc))
        /\ result[1].page_count = Len(doc)

\* a supplied style that is not the one detection would give, a page subset
\* smaller than the document, and rooms that all come from fallbacks
C30_Witness ==
    /\ Returns
    /\ style_enum # <<>>
    /\ style_enum[1] # detect_blueprint_style(full_text(doc))
    /\ pages # <<>>
    /\ Len(pages[1]) < Len(doc)
    /\ result[1].rooms # <<>>
    /\ \A n \in Producers : calls[n].role # "chosen"
    /\ result[1].blueprint_style = style_enum[1]

====
